---- MODULE Spec2Model ----
(***************************************************************************)
(* Model of clamav-exporter: the clamd command-protocol client            *)
(* (vendor/github.com/imgurbot12/clamd), the ICAP probe and the two        *)
(* Prometheus collectors built on them.                                    *)
(*                                                                         *)
(* Byte strings are sequences of integers 0..255.  A float64 gauge value   *)
(* is a record [nan, v]: nan = TRUE is math.NaN().                         *)
(***************************************************************************)
EXTENDS Integers, Sequences, FiniteSets, TLC

(***************************************************************************)
(* Bounds of the model                                                     *)
(***************************************************************************)
\* most response lines a peer sends on one connection
MaxLines == 3
\* most clock ticks a dial takes
MaxTick == 2

(***************************************************************************)
(* Byte-string constants of the program                                    *)
(***************************************************************************)
\* "VERSION"
cmdVERSION ==
    <<86, 69, 82, 83, 73, 79, 78>>
\* "STATS"
cmdSTATS ==
    <<83, 84, 65, 84, 83>>
\* "INSTREAM"
cmdINSTREAM ==
    <<73, 78, 83, 84, 82, 69, 65, 77>>
\* "PING"
cmdPING ==
    <<80, 73, 78, 71>>
\* "PONG"
strPONG ==
    <<80, 79, 78, 71>>
\* clamd.EICAR, the 68 byte test pattern
EICAR ==
    <<88, 53, 79, 33, 80, 37, 64, 65, 80, 91, 52, 92, 80, 90, 88, 53, 52,
      40, 80, 94, 41, 55, 67, 67, 41, 55, 125, 36, 69, 73, 67, 65, 82, 45,
      83, 84, 65, 78, 68, 65, 82, 68, 45, 65, 78, 84, 73, 86, 73, 82, 85,
      83, 45, 84, 69, 83, 84, 45, 70, 73, 76, 69, 33, 36, 72, 43, 72, 42>>
\* bEOF, the zero-length terminator chunk
bEOF ==
    <<0, 0, 0, 0>>
\* the chunk size limit of ScanBytes
MaxChunk == 1024
\* the byte "n" that the format string of Command puts before the command
CmdPrefix == 110
\* the byte "\n" that the format string of Command puts after the command
CmdSuffix == 10

\* "OK", "FOUND", "ERROR", "PARSE ERROR"
RES_OK ==
    <<79, 75>>
RES_FOUND ==
    <<70, 79, 85, 78, 68>>
RES_ERROR ==
    <<69, 82, 82, 79, 82>>
RES_PARSE_ERROR ==
    <<80, 65, 82, 83, 69, 32, 69, 82, 82, 79, 82>>

(***************************************************************************)
(* Helpers on byte strings                                                 *)
(***************************************************************************)
HasPrefix(s, p) ==
    /\ Len(s) >= Len(p)
    /\ SubSeq(s, 1, Len(p)) = p

HasSuffix(s, p) ==
    /\ Len(s) >= Len(p)
    /\ SubSeq(s, Len(s) - Len(p) + 1, Len(s)) = p

\* s[from:] of Go, with from a 0-based offset not beyond the end
SliceFrom(s, from) == SubSeq(s, from + 1, Len(s))

\* the cutset " \t\r\n" of strings.TrimRight in Responses
TrimCutset == {32, 9, 13, 10}

RECURSIVE TrimRight(_)
TrimRight(s) ==
    IF s = <<>> THEN s
    ELSE IF s[Len(s)] \in TrimCutset THEN TrimRight(SubSeq(s, 1, Len(s) - 1))
    ELSE s

\* index of the first occurrence of byte b in s at or after position i, 0 if none
RECURSIVE IndexFrom(_, _, _)
IndexFrom(s, b, i) ==
    IF i > Len(s) THEN 0
    ELSE IF s[i] = b THEN i
    ELSE IndexFrom(s, b, i + 1)

IsDigit(b) == b >= 48 /\ b <= 57

AllDigits(s) == \A i \in 1..Len(s) : IsDigit(s[i])

(***************************************************************************)
(* Result.parse: one response line of clamd to a Result                    *)
(***************************************************************************)
\* "Regex had no matches"
descNoMatch ==
    <<82, 101, 103, 101, 120, 32, 104, 97, 100, 32, 110, 111, 32, 109, 97,
      116, 99, 104, 101, 115>>

\* the status token the line ends in, <<>> if none
StatusOf(s) ==
    IF HasSuffix(s, RES_FOUND) THEN RES_FOUND
    ELSE IF HasSuffix(s, RES_ERROR) THEN RES_ERROR
    ELSE IF HasSuffix(s, RES_OK) THEN RES_OK
    ELSE <<>>

\* positions p of "(" in x that split x as desc "(" vhash ":" vsize ")",
\* the colon being at c: desc and vhash are not empty, vsize is digits
HashSplits(x, c) ==
    { p \in 2..(c - 2) :
        /\ x[p] = 40
        /\ x[Len(x)] = 41
        /\ c + 1 <= Len(x) - 1
        /\ AllDigits(SubSeq(x, c + 1, Len(x) - 1)) }

\* x matches (?P<desc>[^:]+)(\((?P<vhash>([^:]+)):(?P<vsize>\d+)\))?
DescMatches(x) ==
    LET c == IndexFrom(x, 58, 1)
    IN  IF c = 0 THEN x /= <<>>
        ELSE /\ IndexFrom(x, 58, c + 1) = 0
             /\ HashSplits(x, c) /= {}

\* the desc group: greedy, so the last "(" that still lets the rest match
DescOf(x) ==
    LET c == IndexFrom(x, 58, 1)
    IN  IF c = 0 THEN x
        ELSE LET p == CHOOSE q \in HashSplits(x, c) :
                          \A r \in HashSplits(x, c) : r <= q
             IN  SubSeq(x, 1, p - 1)

\* the submatches of resRGX on line, matched = FALSE when it does not match
resRGX(line) ==
    LET c    == IndexFrom(line, 58, 1)
        st   == StatusOf(line)
        rest == SliceFrom(line, c + 1)
        mid  == SubSeq(rest, 1, Len(rest) - Len(st))
        x    == SubSeq(mid, 1, Len(mid) - 1)
        ok   == /\ c >= 2
                /\ Len(line) >= c + 1
                /\ line[c + 1] = 32
                /\ st /= <<>>
                /\ Len(rest) >= Len(st)
                /\ \/ mid = <<>>
                   \/ /\ mid[Len(mid)] = 32
                      /\ DescMatches(x)
    IN  IF ~ok THEN [matched |-> FALSE, path |-> <<>>, desc |-> <<>>, status |-> <<>>]
        ELSE [matched |-> TRUE,
              path    |-> SubSeq(line, 1, c - 1),
              desc    |-> IF mid = <<>> THEN <<>> ELSE DescOf(x),
              status  |-> st]

\* Result.parse without the assignment of RES_PARSE_ERROR when nothing matches
parseNoStatus(line) ==
    LET m == resRGX(line)
    IN  [raw |-> line,
         Description |-> IF m.matched THEN m.desc ELSE descNoMatch,
         Path |-> m.path, Hash |-> <<>>, Size |-> 0, Status |-> m.status]

\* Result.parse.  The switch on the group names has the cases "virhash" and
\* "virsize" while the groups are named vhash and vsize, so Hash and Size
\* keep their zero values.
parse(line) ==
    LET m == resRGX(line)
    IN  IF ~m.matched
        THEN [raw |-> line, Description |-> descNoMatch, Path |-> <<>>,
              Hash |-> <<>>, Size |-> 0, Status |-> RES_PARSE_ERROR]
        ELSE [raw |-> line, Description |-> m.desc, Path |-> m.path,
              Hash |-> <<>>, Size |-> 0, Status |-> m.status]

(***************************************************************************)
(* strconv.Atoi, time.ParseInLocation and clamdVersionRegexp               *)
(***************************************************************************)
RECURSIVE DigitsVal(_)
DigitsVal(s) ==
    IF s = <<>> THEN 0
    ELSE DigitsVal(SubSeq(s, 1, Len(s) - 1)) * 10 + (s[Len(s)] - 48)

RECURSIVE StripZeros(_)
StripZeros(s) ==
    IF s /= <<>> /\ s[1] = 48 THEN StripZeros(Tail(s)) ELSE s

\* strconv.Atoi: an optional sign and decimal digits; a value that does not
\* fit 64 bits is a range error, returned with the nearest int, for which
\* the largest integer of the checker stands.  The values of the model have
\* at most nine significant digits or more than nineteen.
Atoi(s) ==
    LET signed == s /= <<>> /\ s[1] \in {43, 45}
        digits == IF signed THEN Tail(s) ELSE s
    IN  IF digits = <<>> \/ ~AllDigits(digits) THEN [ok |-> FALSE, v |-> 0]
        ELSE IF Len(StripZeros(digits)) > 19
             THEN [ok |-> FALSE,
                   v  |-> IF signed /\ s[1] = 45 THEN 0 - 2147483647
                          ELSE 2147483647]
        ELSE [ok |-> TRUE,
              v  |-> IF signed /\ s[1] = 45 THEN 0 - DigitsVal(digits)
                     ELSE DigitsVal(digits)]

\* "ClamAV "
strClamAV ==
    <<67, 108, 97, 109, 65, 86, 32>>

\* position of the last b in s, 0 if there is none
LastIndex(s, b) ==
    IF \A i \in 1..Len(s) : s[i] /= b THEN 0
    ELSE CHOOSE i \in 1..Len(s) : s[i] = b /\ \A j \in (i + 1)..Len(s) : s[j] /= b

\* the version pattern with greedy groups, ^ClamAV (.*)/(.*)/(.*)$ : the
\* groups end at the last two "/"
clamdVersionRegexpGreedy(v) ==
    LET body == SliceFrom(v, Len(strClamAV))
        s2   == LastIndex(body, 47)
        s1   == IF s2 = 0 THEN 0 ELSE LastIndex(SubSeq(body, 1, s2 - 1), 47)
    IN  IF HasPrefix(v, strClamAV) /\ s1 > 0 /\ s2 > 0
           /\ IndexFrom(v, 10, 1) = 0
        THEN [n |-> 4,
              clamav_version |-> SubSeq(body, 1, s1 - 1),
              db_version     |-> SubSeq(body, s1 + 1, s2 - 1),
              db_date        |-> SubSeq(body, s2 + 1, Len(body))]
        ELSE [n |-> 0, clamav_version |-> <<>>, db_version |-> <<>>,
              db_date |-> <<>>]

\* clamdVersionRegexp.FindStringSubmatch:
\* ^ClamAV (?P<clamav_version>.*?)/(?P<db_version>.*?)/(?P<db_date>.*?)$
\* n is len(matches); the lazy groups end at the first and the second "/"
clamdVersionRegexp(v) ==
    LET body == SliceFrom(v, Len(strClamAV))
        s1   == IndexFrom(body, 47, 1)
        s2   == IndexFrom(body, 47, s1 + 1)
    IN  IF HasPrefix(v, strClamAV) /\ s1 > 0 /\ s2 > 0
           /\ IndexFrom(v, 10, 1) = 0
        THEN [n |-> 4,
              clamav_version |-> SubSeq(body, 1, s1 - 1),
              db_version     |-> SubSeq(body, s1 + 1, s2 - 1),
              db_date        |-> SubSeq(body, s2 + 1, Len(body))]
        ELSE [n |-> 0, clamav_version |-> <<>>, db_version |-> <<>>,
              db_date |-> <<>>]

Lower(b) == IF b >= 65 /\ b <= 90 THEN b + 32 ELSE b

LowerStr(s) == [i \in 1..Len(s) |-> Lower(s[i])]

\* shortDayNames and shortMonthNames of package time, in lower case
shortDayNames ==
    << <<115, 117, 110>>, <<109, 111, 110>>, <<116, 117, 101>>,
       <<119, 101, 100>>, <<116, 104, 117>>, <<102, 114, 105>>,
       <<115, 97, 116>> >>
shortMonthNames ==
    << <<106, 97, 110>>, <<102, 101, 98>>, <<109, 97, 114>>,
       <<97, 112, 114>>, <<109, 97, 121>>, <<106, 117, 110>>,
       <<106, 117, 108>>, <<97, 117, 103>>, <<115, 101, 112>>,
       <<111, 99, 116>>, <<110, 111, 118>>, <<100, 101, 99>> >>

\* time.lookup: index of the name that s has at position i, 0 if none
Lookup(tab, s, i) ==
    LET hits == { k \in 1..Len(tab) :
                    /\ i + 2 <= Len(s)
                    /\ LowerStr(SubSeq(s, i, i + 2)) = tab[k] }
    IN  IF hits = {} THEN 0 ELSE CHOOSE k \in hits : TRUE

RECURSIVE CutSpace(_, _)
CutSpace(s, i) ==
    IF i <= Len(s) /\ s[i] = 32 THEN CutSpace(s, i + 1) ELSE i

\* time.skip for a layout prefix " ": position after the blanks, 0 on errBad
SkipSpace(s, i) ==
    IF i = 0 THEN 0
    ELSE IF i <= Len(s) /\ s[i] /= 32 THEN 0
    ELSE CutSpace(s, i)

\* time.skip for a layout prefix ":"
SkipColon(s, i) ==
    IF i = 0 \/ i > Len(s) THEN 0
    ELSE IF s[i] = 58 THEN i + 1 ELSE 0

DigitAt(s, i) == i >= 1 /\ i <= Len(s) /\ IsDigit(s[i])

\* time.getnum: [v, next]; next = 0 on errBad
GetNum(s, i, fixed) ==
    IF i = 0 \/ ~DigitAt(s, i) THEN [v |-> 0, next |-> 0]
    ELSE IF ~DigitAt(s, i + 1)
         THEN IF fixed THEN [v |-> 0, next |-> 0]
              ELSE [v |-> s[i] - 48, next |-> i + 1]
         ELSE [v |-> (s[i] - 48) * 10 + (s[i + 1] - 48), next |-> i + 2]

\* the fractional second that Parse accepts after the seconds although the
\* layout has none: "." and digits
RECURSIVE SkipDigits(_, _)
SkipDigits(s, i) ==
    IF DigitAt(s, i) THEN SkipDigits(s, i + 1) ELSE i

SkipFraction(s, i) ==
    IF i /= 0 /\ i + 1 <= Len(s) /\ s[i] = 46 /\ DigitAt(s, i + 1)
    THEN SkipDigits(s, i + 1)
    ELSE i

IsLeap(y) == y % 4 = 0 /\ (y % 100 /= 0 \/ y % 400 = 0)

DaysIn(m, y) ==
    IF m = 2 THEN (IF IsLeap(y) THEN 29 ELSE 28)
    ELSE IF m \in {4, 6, 9, 11} THEN 30 ELSE 31

\* days from 1970-01-01 to y-m-d in the proleptic Gregorian calendar
DaysFromCivil(y, m, d) ==
    LET yy  == IF m <= 2 THEN y - 1 ELSE y
        era == yy \div 400
        yoe == yy - era * 400
        mp  == (m + 9) % 12
        doy == (153 * mp + 2) \div 5 + d - 1
        doe == yoe * 365 + yoe \div 4 - yoe \div 100 + doy
    IN  era * 146097 + doe - 719468

\* time.ParseInLocation(clamdDBTimeFormat, s, loc).Unix() for the layout
\* "Mon Jan 2 15:04:05 2006"; off is the offset of loc east of UTC in seconds
ParseDBTime(s, off) ==
    LET wd   == Lookup(shortDayNames, s, 1)
        p1   == IF wd = 0 THEN 0 ELSE SkipSpace(s, 4)
        mon  == IF p1 = 0 THEN 0 ELSE Lookup(shortMonthNames, s, p1)
        p2   == IF mon = 0 THEN 0 ELSE SkipSpace(s, p1 + 3)
        day  == GetNum(s, p2, FALSE)
        p3   == SkipSpace(s, day.next)
        hour == GetNum(s, p3, FALSE)
        p4   == SkipColon(s, hour.next)
        min  == GetNum(s, p4, TRUE)
        p5   == SkipColon(s, min.next)
        sec  == GetNum(s, p5, TRUE)
        p6   == SkipSpace(s, SkipFraction(s, sec.next))
        yok  == p6 /= 0 /\ p6 + 3 <= Len(s) /\ AllDigits(SubSeq(s, p6, p6 + 3))
        year == IF yok THEN DigitsVal(SubSeq(s, p6, p6 + 3)) ELSE 0
        ok   == /\ yok
                /\ p6 + 3 = Len(s)
                /\ hour.v < 24 /\ min.v < 60 /\ sec.v < 60
                /\ day.v >= 1 /\ day.v <= DaysIn(mon, year)
    IN  IF ~ok THEN [ok |-> FALSE, unix |-> 0]
        ELSE [ok   |-> TRUE,
              unix |-> DaysFromCivil(year, mon, day.v) * 86400
                       + hour.v * 3600 + min.v * 60 + sec.v - off]


(***************************************************************************)
(* ClamD.Stats and the stats patterns of the collector                     *)
(***************************************************************************)
\* the section keywords of ClamD.Stats in the order of its switch, each with
\* the offset of the slice taken from a line that has the keyword as prefix
\* (0: no slice): POOLS, STATE, THREADS, QUEUE, MEMSTATS, END
StatsKeys ==
    << [key |-> <<80, 79, 79, 76, 83>>, field |-> "Pools", off |-> 7],
       [key |-> <<83, 84, 65, 84, 69>>, field |-> "State", off |-> 7],
       [key |-> <<84, 72, 82, 69, 65, 68, 83>>, field |-> "Threads", off |-> 9],
       [key |-> <<81, 85, 69, 85, 69>>, field |-> "Queue", off |-> 7],
       [key |-> <<77, 69, 77, 83, 84, 65, 84, 83>>, field |-> "Memstats", off |-> 10],
       [key |-> <<69, 78, 68>>, field |-> "End", off |-> 0] >>

\* the first case of the switch that the line takes, 0 for default
StatsCase(raw) ==
    LET hits == { k \in 1..Len(StatsKeys) : HasPrefix(raw, StatsKeys[k].key) }
    IN  IF hits = {} THEN 0
        ELSE CHOOSE k \in hits : \A j \in hits : k <= j

\* the zero value of ClamDStats; panic is set when a slice is out of range
NoStats ==
    [panic |-> FALSE, Pools |-> <<>>, State |-> <<>>, Threads |-> <<>>,
     Memstats |-> <<>>, Queue |-> <<>>]

\* the loop of ClamD.Stats over the results from the n-th on
RECURSIVE StatsFold(_, _, _)
StatsFold(st, res, n) ==
    IF n > Len(res) THEN st
    ELSE LET raw == res[n].raw
             k   == StatsCase(raw)
         IN  IF k = 0 \/ StatsKeys[k].off = 0 THEN StatsFold(st, res, n + 1)
             ELSE IF Len(raw) < StatsKeys[k].off THEN [st EXCEPT !.panic = TRUE]
             ELSE StatsFold([st EXCEPT ![StatsKeys[k].field] =
                                  SliceFrom(raw, StatsKeys[k].off)],
                            res, n + 1)

\* ClamD.Stats after d.command returned without error
Stats(res) == StatsFold(NoStats, res, 1)

\* \s and \w of the regexp package
IsSpace(b) == b \in {9, 10, 12, 13, 32}
IsWord(b) == IsDigit(b) \/ (b >= 65 /\ b <= 90) \/ (b >= 97 /\ b <= 122) \/ b = 95

\* position after the literal lit at position i of s, 0 if it is not there
Lit(s, i, lit) ==
    IF i = 0 \/ i + Len(lit) - 1 > Len(s) THEN 0
    ELSE IF SubSeq(s, i, i + Len(lit) - 1) = lit THEN i + Len(lit)
    ELSE 0

\* \s+ at position i of s: the position after the blanks, 0 if there is none
RECURSIVE SkipBlanks(_, _)
SkipBlanks(s, i) ==
    IF i <= Len(s) /\ IsSpace(s[i]) THEN SkipBlanks(s, i + 1) ELSE i

Spaces1(s, i) ==
    IF i = 0 \/ i > Len(s) THEN 0
    ELSE IF IsSpace(s[i]) THEN SkipBlanks(s, i) ELSE 0

\* last positions j such that s[i..j] matches the capture group:
\* "int" is (\d+), "size" is (\d+.\d+\w)
CaptureEnds(s, i, kind) ==
    IF kind = "int"
    THEN { j \in i..Len(s) : AllDigits(SubSeq(s, i, j)) }
    ELSE { j \in (i + 3)..Len(s) :
             /\ IsWord(s[j])
             /\ \E k \in (i + 1)..(j - 2) :
                  /\ s[k] /= 10
                  /\ AllDigits(SubSeq(s, i, k - 1))
                  /\ AllDigits(SubSeq(s, k + 1, j - 1)) }

\* the ways s matches, from position i, the fields n.. of a pattern that is a
\* list of  keyword \s+ (group)  separated by \s+ and closed by $: each way
\* is the list of its captured strings
RECURSIVE MatchFields(_, _, _, _)
MatchFields(s, i, fields, n) ==
    LET b == Spaces1(s, Lit(s, i, fields[n].lit))
    IN  IF b = 0 THEN {}
        ELSE UNION {
               IF n = Len(fields)
               THEN IF j = Len(s) THEN { <<SubSeq(s, b, j)>> } ELSE {}
               ELSE { <<SubSeq(s, b, j)>> \o r :
                        r \in MatchFields(s, Spaces1(s, j + 1), fields, n + 1) }
               : j \in CaptureEnds(s, b, fields[n].kind) }

\* FindStringSubmatch of such a pattern: the captured strings, <<>> if s does
\* not match (len(m) is then 0, else 1 + the number of groups)
FindFields(s, fields) ==
    LET ways == MatchFields(s, 1, fields, 1)
    IN  IF ways = {} THEN <<>> ELSE CHOOSE w \in ways : TRUE

\* clamdStatsThreadsRegexp:
\* ^live\s+(\d+)\s+idle\s+(\d+)\s+max\s+(\d+)\s+idle-timeout\s+(\d+)$
clamdStatsThreadsRegexp ==
    << [lit |-> <<108, 105, 118, 101>>, kind |-> "int"],
       [lit |-> <<105, 100, 108, 101>>, kind |-> "int"],
       [lit |-> <<109, 97, 120>>, kind |-> "int"],
       [lit |-> <<105, 100, 108, 101, 45, 116, 105, 109, 101, 111, 117, 116>>,
        kind |-> "int"] >>

\* clamdStatsMemRegexp: heap, mmap, used, free, releasable, pools,
\* pools_used, pools_total; all groups (\d+.\d+\w) but pools, which is (\d+)
clamdStatsMemRegexp ==
    << [lit |-> <<104, 101, 97, 112>>, kind |-> "size"],
       [lit |-> <<109, 109, 97, 112>>, kind |-> "size"],
       [lit |-> <<117, 115, 101, 100>>, kind |-> "size"],
       [lit |-> <<102, 114, 101, 101>>, kind |-> "size"],
       [lit |-> <<114, 101, 108, 101, 97, 115, 97, 98, 108, 101>>, kind |-> "size"],
       [lit |-> <<112, 111, 111, 108, 115>>, kind |-> "int"],
       [lit |-> <<112, 111, 111, 108, 115, 95, 117, 115, 101, 100>>, kind |-> "size"],
       [lit |-> <<112, 111, 111, 108, 115, 95, 116, 111, 116, 97, 108>>,
        kind |-> "size"] >>

\* clamdStatsQueueRegexp.FindStringSubmatch, ^(\d+)\s+item.*$ : the captured
\* string in a list, <<>> if s does not match
clamdStatsQueueRegexp(s) ==
    LET d == SkipDigits(s, 1)
        b == IF d = 1 THEN 0 ELSE Spaces1(s, d)
        e == Lit(s, b, <<105, 116, 101, 109>>)
    IN  IF e = 0 \/ IndexFrom(s, 10, e) /= 0 THEN <<>>
        ELSE << SubSeq(s, 1, d - 1) >>

NaN == [nan |-> TRUE, v |-> 0]
Num(n) == [nan |-> FALSE, v |-> n]

\* cvtInt
cvtInt(number) ==
    LET a == Atoi(number)
    IN  IF a.ok THEN Num(a.v) ELSE NaN

\* unit multipliers of package bytesize: B, K, M, G by the upper-case letter
UnitMult(u) ==
    CASE u = 66 -> 1
      [] u = 75 -> 1024
      [] u = 77 -> 1024 * 1024
      [] u = 71 -> 1024 * 1024 * 1024
      [] OTHER  -> 1024 * 1024 * 1024 * 1024

\* 10^n
RECURSIVE Pow10(_)
Pow10(n) == IF n = 0 THEN 1 ELSE 10 * Pow10(n - 1)

\* bytesize.Parse on a string that matched (\d+.\d+\w): digits, one
\* character, digits, one word character.  The text must be a decimal number
\* followed by an optional unit B, K, M, G, T, P, E, Z or Y in either case.
\* The sizes of the model are whole numbers of bytes.
bytesizeParse(tok) ==
    LET n    == Len(tok)
        last == tok[n]
        unit == IF last >= 97 /\ last <= 122 THEN last - 32 ELSE last
        num  == IF IsDigit(last) THEN tok ELSE SubSeq(tok, 1, n - 1)
        dot  == IndexFrom(num, 46, 1)
        ip   == IF dot = 0 THEN num ELSE SubSeq(num, 1, dot - 1)
        fp   == IF dot = 0 THEN <<>> ELSE SubSeq(num, dot + 1, Len(num))
        mult == IF IsDigit(last) THEN 1 ELSE UnitMult(unit)
        ok   == /\ IsDigit(last) \/ unit \in {66, 75, 77, 71, 84, 80, 69, 90, 89}
                /\ AllDigits(ip) /\ AllDigits(fp)
                /\ ip /= <<>> \/ fp /= <<>>
    IN  IF ~ok THEN [ok |-> FALSE, v |-> 0]
        ELSE [ok |-> TRUE,
              v  |-> DigitsVal(ip) * mult + (DigitsVal(fp) * mult) \div Pow10(Len(fp))]

\* cvtByteSize
cvtByteSize(number) ==
    LET b == bytesizeParse(number)
    IN  IF b.ok THEN Num(b.v) ELSE NaN

\* collectStats after cl.Stats returned without error: the three patterns on
\* the three texts; a section whose pattern does not match stays NaN
AllNaNStats ==
    [QueueLength |-> NaN, ThreadsLive |-> NaN, ThreadsIdle |-> NaN,
     ThreadsMax |-> NaN, MemHeap |-> NaN, MemMMap |-> NaN, MemUsed |-> NaN,
     MemFree |-> NaN, MemReleasable |-> NaN, MemPoolsCount |-> NaN,
     MemPoolsUsed |-> NaN, MemPoolsTotal |-> NaN]

parseStats(s) ==
    LET q  == clamdStatsQueueRegexp(s.Queue)
        t  == FindFields(s.Threads, clamdStatsThreadsRegexp)
        m  == FindFields(s.Memstats, clamdStatsMemRegexp)
        s1 == IF Len(q) = 1
              THEN [AllNaNStats EXCEPT !.QueueLength = cvtInt(q[1])]
              ELSE AllNaNStats
        s2 == IF Len(t) = 4
              THEN [s1 EXCEPT !.ThreadsLive = cvtInt(t[1]),
                              !.ThreadsIdle = cvtInt(t[2]),
                              !.ThreadsMax = cvtInt(t[3])]
              ELSE s1
    IN  IF Len(m) = 8
        THEN [s2 EXCEPT !.MemHeap = cvtByteSize(m[1]),
                        !.MemMMap = cvtByteSize(m[2]),
                        !.MemUsed = cvtByteSize(m[3]),
                        !.MemFree = cvtByteSize(m[4]),
                        !.MemReleasable = cvtByteSize(m[5]),
                        !.MemPoolsCount = cvtInt(m[6]),
                        !.MemPoolsUsed = cvtByteSize(m[7]),
                        !.MemPoolsTotal = cvtByteSize(m[8])]
        ELSE s2


(***************************************************************************)
(* The ICAP probe: request text and parseIcapResult                        *)
(***************************************************************************)
\* "I am a totally legit non-threatening Hello message from The Beyond!"
helloMsg ==
    <<73, 32, 97, 109, 32, 97, 32, 116, 111, 116, 97, 108, 108, 121, 32,
      108, 101, 103, 105, 116, 32, 110, 111, 110, 45, 116, 104, 114, 101,
      97, 116, 101, 110, 105, 110, 103, 32, 72, 101, 108, 108, 111, 32,
      109, 101, 115, 115, 97, 103, 101, 32, 102, 114, 111, 109, 32, 84,
      104, 101, 32, 66, 101, 121, 111, 110, 100, 33>>
\* "localhost"
defaultHost ==
    <<108, 111, 99, 97, 108, 104, 111, 115, 116>>
\* "1344"
defaultPort ==
    <<49, 51, 52, 52>>
\* "squidclamav?allow204=on&force=on&sizelimit=off&mode=simple"
defaultService ==
    <<115, 113, 117, 105, 100, 99, 108, 97, 109, 97, 118, 63, 97, 108,
      108, 111, 119, 50, 48, 52, 61, 111, 110, 38, 102, 111, 114, 99, 101,
      61, 111, 110, 38, 115, 105, 122, 101, 108, 105, 109, 105, 116, 61,
      111, 102, 102, 38, 109, 111, 100, 101, 61, 115, 105, 109, 112, 108,
      101>>
\* "ICAP/1.0 200 OK\r\nServer: C-ICAP/0.5.6\r\nX-Infection-Found: Type=0; Resolution=2; Threat=Eicar-Test-Signature;\r\n\r\n"
icapResFound ==
    <<73, 67, 65, 80, 47, 49, 46, 48, 32, 50, 48, 48, 32, 79, 75, 13, 10,
      83, 101, 114, 118, 101, 114, 58, 32, 67, 45, 73, 67, 65, 80, 47, 48,
      46, 53, 46, 54, 13, 10, 88, 45, 73, 110, 102, 101, 99, 116, 105,
      111, 110, 45, 70, 111, 117, 110, 100, 58, 32, 84, 121, 112, 101, 61,
      48, 59, 32, 82, 101, 115, 111, 108, 117, 116, 105, 111, 110, 61, 50,
      59, 32, 84, 104, 114, 101, 97, 116, 61, 69, 105, 99, 97, 114, 45,
      84, 101, 115, 116, 45, 83, 105, 103, 110, 97, 116, 117, 114, 101,
      59, 13, 10, 13, 10>>
\* "ICAP/1.0 204 Unmodified\r\nServer: C-ICAP/0.5.6\r\n\r\n"
icapResClean ==
    <<73, 67, 65, 80, 47, 49, 46, 48, 32, 50, 48, 52, 32, 85, 110, 109,
      111, 100, 105, 102, 105, 101, 100, 13, 10, 83, 101, 114, 118, 101,
      114, 58, 32, 67, 45, 73, 67, 65, 80, 47, 48, 46, 53, 46, 54, 13, 10,
      13, 10>>
\* "ICAP/1.0 500 Server error\r\n\r\n"
icapResError ==
    <<73, 67, 65, 80, 47, 49, 46, 48, 32, 53, 48, 48, 32, 83, 101, 114,
      118, 101, 114, 32, 101, 114, 114, 111, 114, 13, 10, 13, 10>>
\* "X-Infection-Found: Type=0; Resolution=2; Threat=;\r\n"
icapResThreatOnly ==
    <<88, 45, 73, 110, 102, 101, 99, 116, 105, 111, 110, 45, 70, 111, 117,
      110, 100, 58, 32, 84, 121, 112, 101, 61, 48, 59, 32, 82, 101, 115,
      111, 108, 117, 116, 105, 111, 110, 61, 50, 59, 32, 84, 104, 114,
      101, 97, 116, 61, 59, 13, 10>>
\* "RESPMOD icap://"
sRESPMOD ==
    <<82, 69, 83, 80, 77, 79, 68, 32, 105, 99, 97, 112, 58, 47, 47>>
\* " ICAP/1.0\r\n"
sICAP10 ==
    <<32, 73, 67, 65, 80, 47, 49, 46, 48, 13, 10>>
\* "Host: "
sHost ==
    <<72, 111, 115, 116, 58, 32>>
\* "\r\n"
sCRLF ==
    <<13, 10>>
\* "User-Agent: clamav-exporter\r\n"
sUserAgent ==
    <<85, 115, 101, 114, 45, 65, 103, 101, 110, 116, 58, 32, 99, 108, 97,
      109, 97, 118, 45, 101, 120, 112, 111, 114, 116, 101, 114, 13, 10>>
\* "Allow: 204\r\n"
sAllow ==
    <<65, 108, 108, 111, 119, 58, 32, 50, 48, 52, 13, 10>>
\* "Content-Length: "
sContentLength ==
    <<67, 111, 110, 116, 101, 110, 116, 45, 76, 101, 110, 103, 116, 104,
      58, 32>>
\* "Encapsulated: res-hdr=0, res-body="
sEncapsulated ==
    <<69, 110, 99, 97, 112, 115, 117, 108, 97, 116, 101, 100, 58, 32, 114,
      101, 115, 45, 104, 100, 114, 61, 48, 44, 32, 114, 101, 115, 45, 98,
      111, 100, 121, 61>>
\* "0; ieof\r\n\r\n"
sIeof ==
    <<48, 59, 32, 105, 101, 111, 102, 13, 10, 13, 10>>
\* "Server: C-ICAP/"
sServer ==
    <<83, 101, 114, 118, 101, 114, 58, 32, 67, 45, 73, 67, 65, 80, 47>>
\* "ICAP/1.0 "
sIcapCode ==
    <<73, 67, 65, 80, 47, 49, 46, 48, 32>>
\* "X-Infection-Found: "
sInfection ==
    <<88, 45, 73, 110, 102, 101, 99, 116, 105, 111, 110, 45, 70, 111, 117,
      110, 100, 58, 32>>
\* "Threat="
sThreat ==
    <<84, 104, 114, 101, 97, 116, 61>>

\* fmt.Sprintf("%d", n) for n >= 0
RECURSIVE Itoa(_)
Itoa(n) ==
    IF n < 10 THEN <<48 + n>> ELSE Itoa(n \div 10) \o <<48 + (n % 10)>>

HexDigit(d) == IF d < 10 THEN 48 + d ELSE 87 + d

\* fmt.Sprintf("%x", n) for n >= 0
RECURSIVE Hex(_)
Hex(n) ==
    IF n < 16 THEN <<HexDigit(n)>> ELSE Hex(n \div 16) \o <<HexDigit(n % 16)>>

\* IcapOptions after the defaults of NewIcapChecker
icapOpts ==
    [Host |-> defaultHost, Port |-> defaultPort, Service |-> defaultService]

\* net.JoinHostPort
JoinHostPort(host, port) ==
    IF IndexFrom(host, 58, 1) /= 0 \/ IndexFrom(host, 37, 1) /= 0
    THEN <<91>> \o host \o <<93, 58>> \o port
    ELSE host \o <<58>> \o port

\* the embedded header block of testIcap: its length line is always that of
\* clamd.EICAR
httpHeader == sContentLength \o Itoa(Len(EICAR)) \o sCRLF \o sCRLF

\* the request that testIcap builds for data
icapRequest(data) ==
    LET hostPort == JoinHostPort(icapOpts.Host, icapOpts.Port)
    IN  sRESPMOD \o hostPort \o <<47>> \o icapOpts.Service \o sICAP10
        \o sHost \o hostPort \o sCRLF
        \o sUserAgent
        \o sAllow
        \o sEncapsulated \o Itoa(Len(httpHeader)) \o sCRLF
        \o sCRLF
        \o httpHeader
        \o Hex(Len(data)) \o sCRLF
        \o data
        \o sCRLF
        \o sIeof

\* leftmost position at or after from where lit occurs in s, 0 if nowhere
RECURSIVE FindLit(_, _, _)
FindLit(s, lit, from) ==
    IF from + Len(lit) - 1 > Len(s) THEN 0
    ELSE IF SubSeq(s, from, from + Len(lit) - 1) = lit THEN from
    ELSE FindLit(s, lit, from + 1)

\* icapRespCodeRegexp.FindSubmatch, ICAP/1\.0 (\d+) : the captured digits in
\* a list, <<>> without a match
RECURSIVE icapRespCodeRegexp(_, _)
icapRespCodeRegexp(s, from) ==
    LET i == FindLit(s, sIcapCode, from)
        d == i + Len(sIcapCode)
        e == SkipDigits(s, d)
    IN  IF i = 0 THEN <<>>
        ELSE IF e > d THEN << SubSeq(s, d, e - 1) >>
        ELSE icapRespCodeRegexp(s, i + 1)

\* the end of the line that holds position a: the position of its "\n", or
\* one past the end of s
LineEnd(s, a) ==
    IF IndexFrom(s, 10, a) = 0 THEN Len(s) + 1 ELSE IndexFrom(s, 10, a)

\* icapRespThreatFoundRegexp.FindSubmatch, X-Infection-Found: .*Threat=(.*);
\* "." does not match "\n", both ".*" are greedy: the captured name in a
\* list, <<>> without a match
RECURSIVE icapRespThreatFoundRegexp(_, _)
icapRespThreatFoundRegexp(s, from) ==
    LET i     == FindLit(s, sInfection, from)
        a     == i + Len(sInfection)
        eol   == LineEnd(s, a)
        semis == { k \in a..(eol - 1) : s[k] = 59 }
        last  == CHOOSE k \in semis : \A j \in semis : j <= k
        ts    == IF semis = {} THEN {}
                 ELSE { t \in a..(eol - 1) :
                          /\ Lit(s, t, sThreat) /= 0
                          /\ t + Len(sThreat) <= last }
        t0    == CHOOSE t \in ts : \A j \in ts : j <= t
    IN  IF i = 0 THEN <<>>
        ELSE IF ts /= {} THEN << SubSeq(s, t0 + Len(sThreat), last - 1) >>
        ELSE icapRespThreatFoundRegexp(s, i + 1)

\* icapServerVersionRegexp.FindSubmatch, Server: C-ICAP/(.+?)\r\n : the lazy
\* group takes at least one character and ends before the first "\r\n" that
\* follows on the line
RECURSIVE icapServerVersionRegexp(_, _)
icapServerVersionRegexp(s, from) ==
    LET i    == FindLit(s, sServer, from)
        a    == i + Len(sServer)
        eol  == LineEnd(s, a)
        ends == { e \in a..(eol - 2) :
                    eol <= Len(s) /\ s[e + 1] = 13 /\ e + 2 = eol }
    IN  IF i = 0 THEN <<>>
        ELSE IF ends /= {} THEN << SubSeq(s, a, CHOOSE e \in ends : TRUE) >>
        ELSE icapServerVersionRegexp(s, i + 1)

\* parseIcapResult with found set only for a threat that has a name
parseIcapResultNamedThreat(icapRes) ==
    LET v == icapServerVersionRegexp(icapRes, 1)
        c == icapRespCodeRegexp(icapRes, 1)
        t == icapRespThreatFoundRegexp(icapRes, 1)
    IN  [serverVersion |-> IF Len(v) = 1 THEN v[1] ELSE <<>>,
         code          |-> IF Len(c) = 1 THEN Atoi(c[1]).v ELSE 0 - 1,
         found         |-> IF Len(t) = 1 /\ t[1] /= <<>> THEN 1 ELSE 0]

\* parseIcapResult
parseIcapResult(icapRes) ==
    LET v == icapServerVersionRegexp(icapRes, 1)
        c == icapRespCodeRegexp(icapRes, 1)
        t == icapRespThreatFoundRegexp(icapRes, 1)
    IN  [serverVersion |-> IF Len(v) = 1 THEN v[1] ELSE <<>>,
         code          |-> IF Len(c) = 1 THEN Atoi(c[1]).v ELSE 0 - 1,
         found         |-> IF Len(t) = 1 THEN 1 ELSE 0]

(***************************************************************************)
(* Inputs: what the callers pass and what the peer sends                   *)
(***************************************************************************)
\* "PONG \r", a PONG with trailing blanks before the newline
linePongBlank ==
    <<80, 79, 78, 71, 32, 13>>
\* "PANG"
linePang ==
    <<80, 65, 78, 71>>
\* "stream: Eicar-Test-Signature FOUND"
lineStreamFound ==
    <<115, 116, 114, 101, 97, 109, 58, 32, 69, 105, 99, 97, 114, 45, 84,
      101, 115, 116, 45, 83, 105, 103, 110, 97, 116, 117, 114, 101, 32, 70,
      79, 85, 78, 68>>
\* "stream: OK"
lineStreamOK ==
    <<115, 116, 114, 101, 97, 109, 58, 32, 79, 75>>
\* "INSTREAM size limit exceeded. ERROR"
lineSizeLimit ==
    <<73, 78, 83, 84, 82, 69, 65, 77, 32, 115, 105, 122, 101, 32, 108, 105,
      109, 105, 116, 32, 101, 120, 99, 101, 101, 100, 101, 100, 46, 32, 69,
      82, 82, 79, 82>>
\* "ClamAV 0.102.1/25701/Mon Jan 20 12:41:43 2020"
lineVersionGood ==
    <<67, 108, 97, 109, 65, 86, 32, 48, 46, 49, 48, 50, 46, 49, 47, 50,
      53, 55, 48, 49, 47, 77, 111, 110, 32, 74, 97, 110, 32, 50, 48, 32,
      49, 50, 58, 52, 49, 58, 52, 51, 32, 50, 48, 50, 48>>
\* "clamd 0.102.1/25701/Mon Jan 20 12:41:43 2020"
lineVersionNoPrefix ==
    <<99, 108, 97, 109, 100, 32, 48, 46, 49, 48, 50, 46, 49, 47, 50, 53,
      55, 48, 49, 47, 77, 111, 110, 32, 74, 97, 110, 32, 50, 48, 32, 49,
      50, 58, 52, 49, 58, 52, 51, 32, 50, 48, 50, 48>>
\* "ClamAV 0.102.1/25701"
lineVersionOneSlash ==
    <<67, 108, 97, 109, 65, 86, 32, 48, 46, 49, 48, 50, 46, 49, 47, 50,
      53, 55, 48, 49>>
\* "ClamAV 0.102.1/2570x/Mon Jan 20 12:41:43 2020"
lineVersionBadRev ==
    <<67, 108, 97, 109, 65, 86, 32, 48, 46, 49, 48, 50, 46, 49, 47, 50,
      53, 55, 48, 120, 47, 77, 111, 110, 32, 74, 97, 110, 32, 50, 48, 32,
      49, 50, 58, 52, 49, 58, 52, 51, 32, 50, 48, 50, 48>>
\* "ClamAV 0.102.1/25701/Mon Jan 32 12:41:43 2020"
lineVersionBadDate ==
    <<67, 108, 97, 109, 65, 86, 32, 48, 46, 49, 48, 50, 46, 49, 47, 50,
      53, 55, 48, 49, 47, 77, 111, 110, 32, 74, 97, 110, 32, 51, 50, 32,
      49, 50, 58, 52, 49, 58, 52, 51, 32, 50, 48, 50, 48>>
\* "QUEUE: 3 items"
lineQueue ==
    <<81, 85, 69, 85, 69, 58, 32, 51, 32, 105, 116, 101, 109, 115>>
\* "THREADS: live 1  idle 0 max 12 idle-timeout 30"
lineThreads ==
    <<84, 72, 82, 69, 65, 68, 83, 58, 32, 108, 105, 118, 101, 32, 49, 32,
      32, 105, 100, 108, 101, 32, 48, 32, 109, 97, 120, 32, 49, 50, 32,
      105, 100, 108, 101, 45, 116, 105, 109, 101, 111, 117, 116, 32, 51,
      48>>
\* "MEMSTATS: heap 10.5M mmap 2.0M used 8.0M free 1.0M releasable 0.5M pools 3 pools_used 4.0M pools_total 5.0M"
lineMemstats ==
    <<77, 69, 77, 83, 84, 65, 84, 83, 58, 32, 104, 101, 97, 112, 32, 49,
      48, 46, 53, 77, 32, 109, 109, 97, 112, 32, 50, 46, 48, 77, 32, 117,
      115, 101, 100, 32, 56, 46, 48, 77, 32, 102, 114, 101, 101, 32, 49,
      46, 48, 77, 32, 114, 101, 108, 101, 97, 115, 97, 98, 108, 101, 32,
      48, 46, 53, 77, 32, 112, 111, 111, 108, 115, 32, 51, 32, 112, 111,
      111, 108, 115, 95, 117, 115, 101, 100, 32, 52, 46, 48, 77, 32, 112,
      111, 111, 108, 115, 95, 116, 111, 116, 97, 108, 32, 53, 46, 48, 77>>
\* "QUEUE"
lineQueueBare ==
    <<81, 85, 69, 85, 69>>
\* "END"
lineEnd ==
    <<69, 78, 68>>

\* a payload of n bytes
Fill(n) == [i \in 1..n |-> (i * 7) % 256]

\* the payloads handed to ScanBytes
Payloads == {<<>>, EICAR, Fill(MaxChunk), Fill(MaxChunk + 1)}

\* the commands handed to command
Commands == {cmdPING, cmdVERSION}

\* the lines a peer sends in answer to a command (without the newline)
PeerLines(c) ==
    IF c = cmdINSTREAM THEN {lineStreamFound, lineStreamOK, lineSizeLimit}
    ELSE IF c = cmdVERSION
    THEN {lineVersionGood, lineVersionNoPrefix, lineVersionOneSlash,
          lineVersionBadRev, lineVersionBadDate}
    ELSE IF c = cmdSTATS
    THEN {lineQueue, lineThreads, lineMemstats, lineQueueBare, lineEnd}
    ELSE {strPONG, linePongBlank, linePang}

\* the responses an ICAP peer sends before it closes
IcapResponses ==
    {<<>>, icapResFound, icapResClean, icapResError, icapResThreatOnly}

\* the offsets that time.Local can have east of UTC, in seconds
Zones == {0, 3600}

\* the lines handed to Result.parse, each made of a path ("", "p", "/a b",
\* "p:q"), a separator (": ", ":", " "), a description ("", "E", "E e",
\* "E(x"), a hash part ("", "(h:1)", "(h:12)", "(h:)", "(:1)", "(h:x)"), a
\* gap ("", " ") and a token ("OK", "FOUND", "ERROR", "", "ok", "OK ")
ParseLines ==
    { p \o s1 \o d \o h \o s2 \o t :
        p  \in {<<>>, <<112>>, <<47, 97, 32, 98>>, <<112, 58, 113>>},
        s1 \in {<<58, 32>>, <<58>>, <<32>>},
        d  \in {<<>>, <<69>>, <<69, 32, 101>>, <<69, 40, 120>>},
        h  \in {<<>>, <<40, 104, 58, 49, 41>>, <<40, 104, 58, 49, 50, 41>>,
                <<40, 104, 58, 41>>, <<40, 58, 49, 41>>,
                <<40, 104, 58, 120, 41>>},
        s2 \in {<<>>, <<32>>},
        t  \in {RES_OK, RES_FOUND, RES_ERROR, <<>>, <<111, 107>>,
                <<79, 75, 32>>} }

\* the answers to STATS handed to collectStats: a QUEUE, a THREADS and a
\* MEMSTATS line each, well-formed, not matching its pattern
\* ("QUEUE: none", "THREADS: live x", "MEMSTATS: heap") or with a count of
\* twenty digits ("THREADS: live 99999999999999999999 idle 0 max 12
\* idle-timeout 30", the MEMSTATS line with "pools 99999999999999999999")
StatsResponses ==
    { <<q, t, m>> :
        q \in {lineQueue,
               <<81, 85, 69, 85, 69, 58, 32, 110, 111, 110, 101>>},
        t \in {lineThreads,
               <<84, 72, 82, 69, 65, 68, 83, 58, 32, 108, 105, 118, 101, 32,
                 57, 57, 57, 57, 57, 57, 57, 57, 57, 57, 57, 57, 57, 57, 57,
                 57, 57, 57, 57, 57, 32, 105, 100, 108, 101, 32, 48, 32,
                 109, 97, 120, 32, 49, 50, 32, 105, 100, 108, 101, 45, 116,
                 105, 109, 101, 111, 117, 116, 32, 51, 48>>,
               <<84, 72, 82, 69, 65, 68, 83, 58, 32, 108, 105, 118, 101, 32,
                 120>>},
        m \in {lineMemstats,
               <<77, 69, 77, 83, 84, 65, 84, 83, 58, 32, 104, 101, 97, 112,
                 32, 49, 48, 46, 53, 77, 32, 109, 109, 97, 112, 32, 50, 46,
                 48, 77, 32, 117, 115, 101, 100, 32, 56, 46, 48, 77, 32,
                 102, 114, 101, 101, 32, 49, 46, 48, 77, 32, 114, 101, 108,
                 101, 97, 115, 97, 98, 108, 101, 32, 48, 46, 53, 77, 32,
                 112, 111, 111, 108, 115, 32, 57, 57, 57, 57, 57, 57, 57,
                 57, 57, 57, 57, 57, 57, 57, 57, 57, 57, 57, 57, 57, 32,
                 112, 111, 111, 108, 115, 95, 117, 115, 101, 100, 32, 52,
                 46, 48, 77, 32, 112, 111, 111, 108, 115, 95, 116, 111, 116,
                 97, 108, 32, 53, 46, 48, 77>>,
               <<77, 69, 77, 83, 84, 65, 84, 83, 58, 32, 104, 101, 97, 112>>} }

\* the responses handed to parseIcapResult, each made of a status line
\* ("", "ICAP/1.0 200 OK", "ICAP/1.0 204 Unmodified", "ICAP/1.0 500 Server
\* error", "ICAP/1.0 OK", "ICAP/1.1 200"), a server header ("", "Server:
\* C-ICAP/0.5.6", "Server: C-ICAP/", "Server: X") and an infection header
\* ("", "X-Infection-Found: Type=0; Resolution=2;
\* Threat=Eicar-Test-Signature;", "X-Infection-Found: Threat=;",
\* "X-Infection-Found: Threat=x", "X-Infection-Found: Type=0;" followed by
\* the line "Threat=x;", "X-Violations-Found: 1"), every line with "\r\n"
IcapParseInputs ==
    { a \o b \o c :
        a \in {<<>>,
               <<73, 67, 65, 80, 47, 49, 46, 48, 32, 50, 48, 48, 32, 79, 75,
                 13, 10>>,
               <<73, 67, 65, 80, 47, 49, 46, 48, 32, 50, 48, 52, 32, 85,
                 110, 109, 111, 100, 105, 102, 105, 101, 100, 13, 10>>,
               <<73, 67, 65, 80, 47, 49, 46, 48, 32, 53, 48, 48, 32, 83,
                 101, 114, 118, 101, 114, 32, 101, 114, 114, 111, 114, 13,
                 10>>,
               <<73, 67, 65, 80, 47, 49, 46, 48, 32, 79, 75, 13, 10>>,
               <<73, 67, 65, 80, 47, 49, 46, 49, 32, 50, 48, 48, 13, 10>>},
        b \in {<<>>,
               <<83, 101, 114, 118, 101, 114, 58, 32, 67, 45, 73, 67, 65,
                 80, 47, 48, 46, 53, 46, 54, 13, 10>>,
               <<83, 101, 114, 118, 101, 114, 58, 32, 67, 45, 73, 67, 65,
                 80, 47, 13, 10>>,
               <<83, 101, 114, 118, 101, 114, 58, 32, 88, 13, 10>>},
        c \in {<<>>,
               <<88, 45, 73, 110, 102, 101, 99, 116, 105, 111, 110, 45, 70,
                 111, 117, 110, 100, 58, 32, 84, 121, 112, 101, 61, 48, 59,
                 32, 82, 101, 115, 111, 108, 117, 116, 105, 111, 110, 61,
                 50, 59, 32, 84, 104, 114, 101, 97, 116, 61, 69, 105, 99,
                 97, 114, 45, 84, 101, 115, 116, 45, 83, 105, 103, 110, 97,
                 116, 117, 114, 101, 59, 13, 10>>,
               <<88, 45, 73, 110, 102, 101, 99, 116, 105, 111, 110, 45, 70,
                 111, 117, 110, 100, 58, 32, 84, 104, 114, 101, 97, 116, 61,
                 59, 13, 10>>,
               <<88, 45, 73, 110, 102, 101, 99, 116, 105, 111, 110, 45, 70,
                 111, 117, 110, 100, 58, 32, 84, 104, 114, 101, 97, 116, 61,
                 120, 13, 10>>,
               <<88, 45, 73, 110, 102, 101, 99, 116, 105, 111, 110, 45, 70,
                 111, 117, 110, 100, 58, 32, 84, 121, 112, 101, 61, 48, 59,
                 13, 10, 84, 104, 114, 101, 97, 116, 61, 120, 59, 13, 10>>,
               <<88, 45, 86, 105, 111, 108, 97, 116, 105, 111, 110, 115, 45,
                 70, 111, 117, 110, 100, 58, 32, 49, 13, 10>>} }

\* the version lines handed to the version pattern, each made of a prefix
\* ("ClamAV ", "clamav ", "ClamAV", ""), an engine ("0.102.1", "", "1 2"),
\* a separator ("/", ""), a revision ("25701", "", "x"), a separator and a
\* date ("Mon Jan 20 12:41:43 2020", "", "a/b", "Mon Jan 32 12:41:43 2020")
VersionLines ==
    { a \o e \o s1 \o r \o s2 \o d :
        a  \in {<<67, 108, 97, 109, 65, 86, 32>>,
                <<99, 108, 97, 109, 97, 118, 32>>,
                <<67, 108, 97, 109, 65, 86>>,
                <<>>},
        e  \in {<<48, 46, 49, 48, 50, 46, 49>>,
                <<>>,
                <<49, 32, 50>>},
        s1 \in {<<47>>, <<>>},
        r  \in {<<50, 53, 55, 48, 49>>,
                <<>>,
                <<120>>},
        s2 \in {<<47>>, <<>>},
        d  \in {<<77, 111, 110, 32, 74, 97, 110, 32, 50, 48, 32, 49, 50, 58,
                  52, 49, 58, 52, 51, 32, 50, 48, 50, 48>>,
                <<>>,
                <<97, 47, 98>>,
                <<77, 111, 110, 32, 74, 97, 110, 32, 51, 50, 32, 49, 50, 58,
                  52, 49, 58, 52, 51, 32, 50, 48, 50, 48>>} }

(***************************************************************************)
(* State                                                                   *)
(***************************************************************************)
VARIABLES
    urlOK,     \* url.Parse accepts the configured URL of the clamd checker
    tz,        \* offset of time.Local in a list, empty until it is loaded
    op,        \* the exported operation in progress
    step,      \* the step of Collect in progress
    fn,        \* the client function that owns the connection
    pc,        \* position in the operation
    cmd,       \* the command of the connection
    await,     \* the expected line of commandAwait
    payload,   \* the argument of ScanBytes
    open,      \* number of connections that are open
    wire,      \* bytes written on the current (or last) connection
    reads,     \* number of reads made on the current (or last) connection
    results,   \* results collected by Responses
    err,       \* error of the client function: "nil" or its kind
    ret,       \* what the exported operation returned
    emitted,   \* the metrics sent on the channel by Collect, in order
    dialOKs,   \* dials of the operation that succeeded
    dialFails, \* dials of the operation that failed
    wfailed,   \* a write on the current connection failed
    sent,      \* complete lines the peer sent on the current connection
    rend,      \* how the reading ended: "none", "eof" or "error"
    timing,    \* a start time was taken and the elapsed time not yet
    ticks,     \* clock ticks since the start time
    prev       \* what the previous Collect of the same checker emitted when
               \* every dial of it failed, kept until a dial succeeds

connVars == <<open, wire, reads, results, err, wfailed, sent, rend>>
callVars == <<urlOK, tz, op, step, fn, cmd, await, payload, emitted, timing,
              prev>>
vars == <<urlOK, tz, op, step, fn, pc, cmd, await, payload, open, wire, reads,
          results, err, ret, emitted, dialOKs, dialFails, wfailed,
          sent, rend, timing, ticks, prev>>

NoRet == [err |-> "none", errLine |-> <<>>, results |-> <<>>]

Init ==
    /\ urlOK \in BOOLEAN
    /\ tz = <<>>
    /\ op = "idle"
    /\ step = "none"
    /\ fn = "none"
    /\ pc = "idle"
    /\ cmd = <<>>
    /\ await = <<>>
    /\ payload = <<>>
    /\ open = 0
    /\ wire = <<>>
    /\ reads = 0
    /\ results = <<>>
    /\ err = "nil"
    /\ ret = NoRet
    /\ emitted = <<>>
    /\ dialOKs = 0
    /\ dialFails = 0
    /\ wfailed = FALSE
    /\ sent = <<>>
    /\ rend = "none"
    /\ timing = FALSE
    /\ ticks = 0
    /\ prev = <<>>

\* an exported operation starts in a process where none is running: nothing
\* of the previous one is kept but the connections it left open, if any
Enter(o, st, f, c, a, b) ==
    /\ pc \in {"idle", "done", "panic"}
    /\ op' = o
    /\ step' = st
    /\ fn' = f
    /\ cmd' = c
    /\ await' = a
    /\ payload' = b
    /\ wire' = <<>>
    /\ reads' = 0
    /\ results' = <<>>
    /\ err' = "nil"
    /\ ret' = NoRet
    /\ emitted' = <<>>
    /\ dialOKs' = 0
    /\ dialFails' = 0
    /\ wfailed' = FALSE
    /\ sent' = <<>>
    /\ rend' = "none"
    /\ timing' = FALSE
    /\ ticks' = 0
    /\ prev' = IF /\ o \in {"Collect", "IcapCollect"}
                  /\ op = o
                  /\ pc = "done"
                  /\ dialOKs = 0
                  /\ dialFails > 0
               THEN emitted
               ELSE <<>>
    /\ UNCHANGED <<open, urlOK, tz>>

\* the clock advances by d while an elapsed time is being measured
Tick(d) == ticks' = IF timing THEN ticks + d ELSE ticks

(***************************************************************************)
(* clamdConn and ClamD.spawnConn                                           *)
(***************************************************************************)
\* ClamD.spawnConn: net.Dial / net.DialTimeout succeeds or fails, after a
\* time that varies
spawnConn ==
    /\ pc = "dial"
    /\ \E ok \in BOOLEAN :
         IF ok
         THEN /\ open' = open + 1
              /\ dialOKs' = dialOKs + 1
              /\ pc' = "cmd"
              /\ prev' = <<>>
              /\ UNCHANGED <<err, dialFails>>
         ELSE /\ err' = "dial"
              /\ dialFails' = dialFails + 1
              /\ pc' = "ret"
              /\ UNCHANGED <<open, dialOKs, prev>>
    /\ \E d \in 1..MaxTick : Tick(d)
    /\ wire' = <<>>
    /\ reads' = 0
    /\ results' = <<>>
    /\ wfailed' = FALSE
    /\ sent' = <<>>
    /\ rend' = "none"
    /\ UNCHANGED <<urlOK, tz, op, step, fn, cmd, await, payload, emitted,
                   timing, ret>>

\* the lengths a failed write can have put on the wire
FailedLens(data) == {0, Len(data) \div 2}

\* ConnWrite in a function that returns the write error without closing
ConnWriteNoClose(data, next) ==
    /\ \/ /\ wire' = wire \o data
          /\ pc' = next
          /\ UNCHANGED <<err, open, wfailed>>
       \/ \E k \in FailedLens(data) :
            /\ wire' = wire \o SubSeq(data, 1, k)
            /\ wfailed' = TRUE
            /\ err' = "write"
            /\ pc' = "ret"
            /\ UNCHANGED open
    /\ Tick(1)
    /\ UNCHANGED <<callVars, ret, reads, results, sent, rend, dialOKs, dialFails>>

\* one Write on the connection by a function that has deferred conn.Close():
\* all of data goes out and the function goes on at next, or the write fails
\* after part of data and the function returns the error
ConnWrite(data, next) ==
    /\ \/ /\ wire' = wire \o data
          /\ pc' = next
          /\ UNCHANGED <<err, open, wfailed>>
       \/ \E k \in FailedLens(data) :
            /\ wire' = wire \o SubSeq(data, 1, k)
            /\ wfailed' = TRUE
            /\ err' = "write"
            /\ open' = open - 1
            /\ pc' = "ret"
    /\ Tick(1)
    /\ UNCHANGED <<callVars, ret, reads, results, sent, rend, dialOKs, dialFails>>

\* Command with the format string "n%s"
CommandBytesNoNewline(c) == <<CmdPrefix>> \o c

\* what clamdConn.Command writes: fmt.Fprintf(*c, "n%s\n", cmd)
CommandBytes(c) == <<CmdPrefix>> \o c \o <<CmdSuffix>>

\* clamdConn.Command, as called by ClamD.command and ClamD.ScanBytes
Command ==
    /\ pc = "cmd"
    /\ ConnWrite(CommandBytes(cmd), IF fn = "ScanBytes" THEN "chunklen" ELSE "read")

\* the length bytes of a chunk, lowest byte first
ChunkLenBytesLittleEndian(dlen) ==
    << dlen % 256,
       (dlen \div 256) % 256,
       (dlen \div 65536) % 256,
       (dlen \div 16777216) % 256 >>

\* the four length bytes of clamdConn.Chunk
ChunkLenBytes(dlen) ==
    << (dlen \div 16777216) % 256,
       (dlen \div 65536) % 256,
       (dlen \div 256) % 256,
       dlen % 256 >>

\* clamdConn.Chunk, first write: the length of the chunk
ChunkLen ==
    /\ pc = "chunklen"
    /\ ConnWrite(ChunkLenBytes(Len(payload)), "chunkdata")

\* clamdConn.Chunk, second write: the chunk
ChunkData ==
    /\ pc = "chunkdata"
    /\ ConnWrite(payload, "eof")

\* clamdConn.EOF
EOF ==
    /\ pc = "eof"
    /\ ConnWrite(bEOF, "read")

\* clamdConn.Responses, one turn of the loop in which ReadString returns a
\* line: the line is trimmed, parsed and appended
ResponsesLine ==
    /\ pc = "read"
    /\ Len(sent) < MaxLines
    /\ \E l \in PeerLines(cmd) :
         /\ sent' = Append(sent, l)
         /\ results' = Append(results, parse(TrimRight(l \o <<10>>)))
    /\ reads' = reads + 1
    /\ Tick(1)
    /\ UNCHANGED <<callVars, pc, ret, open, wire, err, wfailed, rend,
                   dialOKs, dialFails>>

\* clamdConn.Responses, the turn in which ReadString returns an error, io.EOF
\* or another one, possibly with an unterminated fragment: the loop breaks,
\* the fragment and the error are dropped, and the caller's deferred Close runs
ResponsesEnd ==
    /\ pc = "read"
    /\ \E kind \in {"eof", "error"} : rend' = kind
    /\ reads' = reads + 1
    /\ open' = open - 1
    /\ pc' = "ret"
    /\ Tick(1)
    /\ UNCHANGED <<callVars, ret, wire, results, err, wfailed, sent,
                   dialOKs, dialFails>>

\* a return that takes an empty response for an error, as ClamD.Version does
ClientReturnEmptyIsError ==
    [err |-> IF err = "nil" /\ results = <<>> THEN "errNoResp" ELSE err,
     errLine |-> <<>>,
     results |-> IF err = "nil" THEN results ELSE <<>>]

\* what ClamD.command and ClamD.ScanBytes return: (nil, err) or (results, nil)
ClientReturn == [err |-> err, errLine |-> <<>>,
                 results |-> IF err = "nil" THEN results ELSE <<>>]

(***************************************************************************)
(* ClamD.command, ClamD.commandAwait, ClamD.ScanBytes as exported calls,   *)
(* on a ClamD that NewClamd returned, so with a URL that parses            *)
(***************************************************************************)
command ==
    \E c \in Commands :
      /\ urlOK
      /\ Enter("command", "none", "command", c, <<>>, <<>>)
      /\ pc' = "dial"

commandReturn ==
    /\ op = "command"
    /\ pc = "ret"
    /\ ret' = ClientReturn
    /\ pc' = "done"
    /\ UNCHANGED <<callVars, connVars, dialOKs, dialFails, ticks>>

\* ClamD.Ping: commandAwait("PING", "PONG")
commandAwait ==
    /\ urlOK
    /\ Enter("commandAwait", "none", "command", cmdPING, strPONG, <<>>)
    /\ pc' = "dial"

\* commandAwait with a loop that goes on to the next result when one differs
commandAwaitAnyLine(e, res, a) ==
    IF e /= "nil" THEN [err |-> e, errLine |-> <<>>, results |-> <<>>]
    ELSE IF Len(res) = 0 THEN [err |-> "errNoResp", errLine |-> <<>>, results |-> <<>>]
    ELSE IF \E i \in 1..Len(res) : res[i].raw = a
         THEN [err |-> "nil", errLine |-> <<>>, results |-> <<>>]
    ELSE [err |-> "invalid response", errLine |-> res[1].raw, results |-> <<>>]

\* the rest of commandAwait after d.command returned
commandAwaitResult(e, res, a) ==
    IF e /= "nil" THEN [err |-> e, errLine |-> <<>>, results |-> <<>>]
    ELSE IF Len(res) = 0 THEN [err |-> "errNoResp", errLine |-> <<>>, results |-> <<>>]
    ELSE IF res[1].raw = a THEN [err |-> "nil", errLine |-> <<>>, results |-> <<>>]
    ELSE [err |-> "invalid response", errLine |-> res[1].raw, results |-> <<>>]

commandAwaitReturn ==
    /\ op = "commandAwait"
    /\ pc = "ret"
    /\ ret' = commandAwaitResult(err, results, await)
    /\ pc' = "done"
    /\ UNCHANGED <<callVars, connVars, dialOKs, dialFails, ticks>>

\* ScanBytes with the size check len(b) >= 1024
ScanBytesOffByOne ==
    \E b \in Payloads :
      /\ urlOK
      /\ Enter("ScanBytes", "none", "ScanBytes", cmdINSTREAM, <<>>, b)
      /\ pc' = IF Len(b) >= MaxChunk THEN "toobig" ELSE "dial"

\* ClamD.ScanBytes: the size check comes before spawnConn
ScanBytes ==
    \E b \in Payloads :
      /\ urlOK
      /\ Enter("ScanBytes", "none", "ScanBytes", cmdINSTREAM, <<>>, b)
      /\ pc' = IF Len(b) > MaxChunk THEN "toobig" ELSE "dial"

ScanBytesTooBig ==
    /\ pc = "toobig"
    /\ err' = "chunk size"
    /\ pc' = "ret"
    /\ UNCHANGED <<callVars, ret, open, wire, reads, results, wfailed, sent,
                   rend, dialOKs, dialFails, ticks>>

ScanBytesReturn ==
    /\ op = "ScanBytes"
    /\ pc = "ret"
    /\ ret' = ClientReturn
    /\ pc' = "done"
    /\ UNCHANGED <<callVars, connVars, dialOKs, dialFails, ticks>>

(***************************************************************************)
(* ClamDChecker: Describe and Collect                                      *)
(***************************************************************************)
\* the descriptors ClamDChecker.Describe sends, in order
ClamDDescribe ==
    << "promClamDUp", "promClamDDBVersion", "promClamDDBTime",
       "promClamDStatsQueueLength", "promClamDStatsThreadsLive",
       "promClamDStatsThreadsIdle", "promClamDStatsThreadsMax",
       "promClamDStatsMemHeap", "promClamDStatsMemMMap",
       "promClamDStatsMemUsed", "promClamDStatsMemFree",
       "promClamDStatsMemReleasable", "promClamDStatsMemPools",
       "promClamDStatsMemPoolsUsed", "promClamDStatsMemPoolsTotal",
       "promClamDEicarDetected", "promClamDEicarDetectionTime" >>

\* prometheus.MustNewConstMetric(desc, GaugeValue, value, labels...)
Metric(desc, value, labels) == [desc |-> desc, value |-> value, labels |-> labels]

\* ClamD.Version after d.command returned (e, res)
Version(e, res) ==
    IF e /= "nil" THEN [v |-> <<>>, err |-> e]
    ELSE IF Len(res) = 0 THEN [v |-> <<>>, err |-> "errNoResp"]
    ELSE [v |-> res[1].raw, err |-> "nil"]

\* collectVersion: its named results as they are at the return that is taken
collectVersion(urlok, e, res, off) ==
    LET zero == [version |-> <<>>, dbVersion |-> Num(0), dbTime |-> Num(0),
                 err |-> "nil"]
        ver  == Version(e, res)
        m    == clamdVersionRegexp(ver.v)
        a    == Atoi(m.db_version)
        t    == ParseDBTime(m.db_date, off)
    IN  IF ~urlok THEN [zero EXCEPT !.err = "url"]
        ELSE IF ver.err /= "nil" THEN [zero EXCEPT !.err = ver.err]
        ELSE IF m.n /= 4 THEN [zero EXCEPT !.err = "invalid version"]
        ELSE IF ~a.ok
             THEN [zero EXCEPT !.version = m.clamav_version, !.err = "atoi"]
        ELSE IF ~t.ok
             THEN [zero EXCEPT !.version = m.clamav_version,
                               !.dbVersion = Num(a.v), !.err = "time"]
        ELSE [version |-> m.clamav_version, dbVersion |-> Num(a.v),
              dbTime |-> Num(t.unix), err |-> "nil"]

\* VersionMetrics without the two assignments of NaN in the error branch
VersionMetricsKeepParsed(cv) ==
    << Metric("promClamDUp", IF cv.err /= "nil" THEN Num(0) ELSE Num(1),
              <<cv.version>>),
       Metric("promClamDDBVersion", cv.dbVersion, <<>>),
       Metric("promClamDDBTime", cv.dbTime, <<>>) >>

\* Collect, the first three metrics: from collectVersion's results
VersionMetrics(cv) ==
    LET failed == cv.err /= "nil"
    IN  << Metric("promClamDUp", IF failed THEN Num(0) ELSE Num(1), <<cv.version>>),
           Metric("promClamDDBVersion", IF failed THEN NaN ELSE cv.dbVersion, <<>>),
           Metric("promClamDDBTime", IF failed THEN NaN ELSE cv.dbTime, <<>>) >>

\* Collect, the twelve metrics of the stats
StatsMetrics(st) ==
    << Metric("promClamDStatsQueueLength", st.QueueLength, <<>>),
       Metric("promClamDStatsThreadsLive", st.ThreadsLive, <<>>),
       Metric("promClamDStatsThreadsIdle", st.ThreadsIdle, <<>>),
       Metric("promClamDStatsThreadsMax", st.ThreadsMax, <<>>),
       Metric("promClamDStatsMemHeap", st.MemHeap, <<>>),
       Metric("promClamDStatsMemMMap", st.MemMMap, <<>>),
       Metric("promClamDStatsMemUsed", st.MemUsed, <<>>),
       Metric("promClamDStatsMemFree", st.MemFree, <<>>),
       Metric("promClamDStatsMemReleasable", st.MemReleasable, <<>>),
       Metric("promClamDStatsMemPools", st.MemPoolsCount, <<>>),
       Metric("promClamDStatsMemPoolsUsed", st.MemPoolsUsed, <<>>),
       Metric("promClamDStatsMemPoolsTotal", st.MemPoolsTotal, <<>>) >>

\* collectEicar after cl.ScanBytes returned (e, res), or after NewClamd
\* failed: elapsed is taken before the error is looked at
collectEicar(urlok, e, res, elapsed) ==
    IF ~urlok THEN [detected |-> 0, elapsed |-> NaN]
    ELSE IF e /= "nil" \/ Len(res) /= 1 THEN [detected |-> 0, elapsed |-> Num(elapsed)]
    ELSE [detected |-> IF res[1].Status = RES_FOUND THEN 1 ELSE 0,
          elapsed  |-> Num(elapsed)]

\* Collect, the last two metrics
EicarMetrics(ce) ==
    << Metric("promClamDEicarDetected", Num(ce.detected), <<>>),
       Metric("promClamDEicarDetectionTime", ce.elapsed, <<>>) >>

\* ClamDChecker.Collect is called: collectVersion starts; when NewClamd
\* rejects the URL no connection is tried
Collect ==
    /\ Enter("Collect", "version", "command", cmdVERSION, <<>>, <<>>)
    /\ pc' = IF urlOK THEN "dial" ELSE "ret"

\* Collect after collectVersion returned: three metrics, then collectStats
\* starts
CollectVersionDone ==
    /\ op = "Collect"
    /\ step = "version"
    /\ pc = "ret"
    /\ \E z \in (IF tz = <<>> THEN Zones ELSE {tz[1]}) :
         /\ tz' = <<z>>
         /\ emitted' = emitted \o VersionMetrics(collectVersion(urlOK, err, results, z))
    /\ step' = "stats"
    /\ cmd' = cmdSTATS
    /\ err' = "nil"
    /\ results' = <<>>
    /\ pc' = IF urlOK THEN "dial" ELSE "ret"
    /\ UNCHANGED <<prev, urlOK, op, fn, await, payload, open, wire, reads, ret,
                   dialOKs, dialFails, wfailed, sent, rend, timing,
                   ticks>>

\* Collect after collectStats' call of cl.Stats: ClamD.Stats panics on a
\* short section line and Collect is left by the panic; else twelve metrics,
\* then collectEicar starts and takes the start time
CollectStatsDone ==
    /\ op = "Collect"
    /\ step = "stats"
    /\ pc = "ret"
    /\ LET failed == ~urlOK \/ err /= "nil"
           s      == Stats(results)
       IN  IF ~failed /\ s.panic
           THEN /\ pc' = "panic"
                /\ UNCHANGED <<emitted, step, fn, cmd, payload, err, results,
                               timing, ticks>>
           ELSE /\ emitted' = emitted \o
                      StatsMetrics(IF failed THEN AllNaNStats ELSE parseStats(s))
                /\ step' = "eicar"
                /\ fn' = "ScanBytes"
                /\ cmd' = cmdINSTREAM
                /\ payload' = EICAR
                /\ err' = "nil"
                /\ results' = <<>>
                /\ timing' = urlOK
                /\ ticks' = 0
                /\ pc' = IF ~urlOK THEN "ret"
                         ELSE IF Len(EICAR) > MaxChunk THEN "toobig"
                         ELSE "dial"
    /\ UNCHANGED <<prev, urlOK, tz, op, await, open, wire, reads, ret, dialOKs, dialFails, wfailed, sent, rend>>

\* Collect after collectEicar: the last two metrics, and Collect returns
CollectEicarDone ==
    /\ op = "Collect"
    /\ step = "eicar"
    /\ pc = "ret"
    /\ emitted' = emitted \o EicarMetrics(collectEicar(urlOK, err, results, ticks))
    /\ timing' = FALSE
    /\ pc' = "done"
    /\ UNCHANGED <<prev, urlOK, tz, op, step, fn, cmd, await, payload, connVars, ret, dialOKs, dialFails, ticks>>

(***************************************************************************)
(* IcapChecker: Describe, Collect and testIcap                             *)
(***************************************************************************)
\* the descriptors IcapChecker.Describe sends, in order
IcapDescribe ==
    << "promIcapUp", "promIcapEicarIcapCode", "promIcapEicarDetected",
       "promIcapEicarDetectionTime", "promIcapHelloOK", "promIcapHelloOKTime" >>

\* IcapChecker.Collect is called: collectEicar calls testIcap(clamd.EICAR)
IcapCollect ==
    /\ Enter("IcapCollect", "eicar", "testIcap", <<>>, <<>>, EICAR)
    /\ pc' = "resolve"

\* testIcap: net.ResolveTCPAddr; when it succeeds the start time is taken
\* and the setting of elapsed is deferred
IcapResolve ==
    /\ pc = "resolve"
    /\ \E ok \in BOOLEAN :
         IF ok
         THEN /\ timing' = TRUE
              /\ ticks' = 0
              /\ pc' = "icapdial"
              /\ UNCHANGED err
         ELSE /\ err' = "resolve"
              /\ pc' = "ret"
              /\ UNCHANGED <<timing, ticks>>
    /\ UNCHANGED <<prev, urlOK, tz, op, step, fn, cmd, await, payload, emitted,
                   open, wire, reads, results, wfailed, sent, rend, ret,
                   dialOKs, dialFails>>

\* testIcap: net.DialTCP; when it succeeds conn.Close is deferred
IcapDial ==
    /\ pc = "icapdial"
    /\ \E ok \in BOOLEAN :
         IF ok
         THEN /\ open' = open + 1
              /\ dialOKs' = dialOKs + 1
              /\ pc' = "icapwrite"
              /\ prev' = <<>>
              /\ UNCHANGED <<err, dialFails>>
         ELSE /\ err' = "dial"
              /\ dialFails' = dialFails + 1
              /\ pc' = "ret"
              /\ UNCHANGED <<open, dialOKs, prev>>
    /\ \E d \in 1..MaxTick : Tick(d)
    /\ wire' = <<>>
    /\ reads' = 0
    /\ results' = <<>>
    /\ wfailed' = FALSE
    /\ sent' = <<>>
    /\ rend' = "none"
    /\ UNCHANGED <<urlOK, tz, op, step, fn, cmd, await, payload, emitted,
                   timing, ret>>

\* testIcap: io.Copy(conn, req) writes the whole request, or fails (a short
\* write is io.ErrShortWrite) and the function returns
IcapWrite ==
    /\ pc = "icapwrite"
    /\ ConnWrite(icapRequest(payload), "closewrite")

\* testIcap: conn.CloseWrite
IcapCloseWrite ==
    /\ pc = "closewrite"
    /\ \E ok \in BOOLEAN :
         IF ok
         THEN /\ pc' = "readall"
              /\ UNCHANGED <<err, open>>
         ELSE /\ err' = "closewrite"
              /\ open' = open - 1
              /\ pc' = "ret"
    /\ Tick(1)
    /\ UNCHANGED <<callVars, ret, wire, reads, results, wfailed, sent, rend,
                   dialOKs, dialFails>>

\* testIcap: ioutil.ReadAll(conn) returns what the peer sent before it
\* closed, or fails; either way the function returns and the connection is
\* closed
IcapReadAll ==
    /\ pc = "readall"
    /\ \/ \E res \in IcapResponses :
            /\ sent' = <<res>>
            /\ rend' = "eof"
            /\ UNCHANGED err
       \/ /\ err' = "read"
          /\ rend' = "error"
          /\ UNCHANGED sent
    /\ reads' = reads + 1
    /\ open' = open - 1
    /\ pc' = "ret"
    /\ Tick(1)
    /\ UNCHANGED <<callVars, ret, wire, results, wfailed, dialOKs, dialFails>>

\* the results of testIcap at its return: elapsed is NaN unless the start
\* time was taken, else the deferred function sets it
testIcap(e, res, started, elapsed) ==
    LET r == parseIcapResult(res)
    IN  [icapServerVersion |-> IF e = "nil" THEN r.serverVersion ELSE <<>>,
         icapCode          |-> IF e = "nil" THEN r.code ELSE 0,
         detected          |-> IF e = "nil" THEN r.found ELSE 0,
         elapsed           |-> IF started THEN Num(elapsed) ELSE NaN,
         err               |-> e]

\* the response testIcap read, empty when it read none
Response == IF sent = <<>> THEN <<>> ELSE sent[1]

\* Collect after collectEicar returned: four metrics, then collectHello
\* calls testIcap with the hello message
IcapEicarDone ==
    /\ op = "IcapCollect"
    /\ step = "eicar"
    /\ pc = "ret"
    /\ LET r == testIcap(err, Response, timing, ticks)
       IN  emitted' = emitted \o
             << Metric("promIcapUp", IF r.err /= "nil" THEN Num(0) ELSE Num(1),
                       <<r.icapServerVersion>>),
                Metric("promIcapEicarIcapCode", Num(r.icapCode), <<>>),
                Metric("promIcapEicarDetected", Num(r.detected), <<>>),
                Metric("promIcapEicarDetectionTime", r.elapsed, <<>>) >>
    /\ step' = "hello"
    /\ payload' = helloMsg
    /\ err' = "nil"
    /\ timing' = FALSE
    /\ ticks' = 0
    /\ pc' = "resolve"
    /\ UNCHANGED <<prev, urlOK, tz, op, fn, cmd, await, open, wire, reads, results,
                   wfailed, sent, rend, ret, dialOKs, dialFails>>

\* a collectHello that looks at the error only
collectHelloAnyAnswer(r) ==
    [helloOK      |-> IF r.err = "nil" THEN 1 ELSE 0,
     helloElapsed |-> r.elapsed]

\* collectHello after testIcap returned
collectHello(r) ==
    [helloOK      |-> IF r.err = "nil" /\ r.detected = 0 THEN 1 ELSE 0,
     helloElapsed |-> r.elapsed]

\* Collect after collectHello returned: two metrics, and Collect returns
IcapHelloDone ==
    /\ op = "IcapCollect"
    /\ step = "hello"
    /\ pc = "ret"
    /\ LET h == collectHello(testIcap(err, Response, timing, ticks))
       IN  emitted' = emitted \o
             << Metric("promIcapHelloOK", Num(h.helloOK), <<>>),
                Metric("promIcapHelloOKTime", h.helloElapsed, <<>>) >>
    /\ timing' = FALSE
    /\ pc' = "done"
    /\ UNCHANGED <<prev, urlOK, tz, op, step, fn, cmd, await, payload, connVars,
                   ret, dialOKs, dialFails, ticks>>

(***************************************************************************)
(* Functions called on their own                                           *)
(***************************************************************************)
\* Result.parse is called with a line, as a test calls it: first thing in
\* its process
ResultParse ==
    /\ pc = "idle"
    /\ \E line \in ParseLines :
         /\ Enter("parse", "none", "parse", <<>>, <<>>, line)
         /\ pc' = "apply"

\* Result.parse returns: the Result it filled
ResultParseDone ==
    /\ op = "parse"
    /\ pc = "apply"
    /\ results' = <<parse(payload)>>
    /\ pc' = "done"
    /\ UNCHANGED <<callVars, open, wire, reads, err, wfailed, sent, rend, ret,
                   dialOKs, dialFails, ticks>>

\* collectStats is called on its own; what follows leaves out the
\* connection
collectStats ==
    /\ pc = "idle"
    /\ Enter("collectStats", "stats", "collectStats", cmdSTATS, <<>>, <<>>)
    /\ pc' = "apply"

\* collectStats returns after cl.Stats folded the daemon's answer and the
\* three patterns were applied; its caller emits the twelve gauges
collectStatsDone ==
    /\ op = "collectStats"
    /\ pc = "apply"
    /\ \E lines \in StatsResponses :
         LET res == [i \in 1..Len(lines) |-> parse(TrimRight(lines[i]))]
         IN  /\ sent' = lines
             /\ results' = res
             /\ emitted' = StatsMetrics(parseStats(Stats(res)))
    /\ pc' = "done"
    /\ UNCHANGED <<prev, urlOK, tz, op, step, fn, cmd, await, payload, timing, open,
                   wire, reads, err, wfailed, rend, ret, dialOKs, dialFails,
                   ticks>>

\* parseIcapResult is called with a response, as a test calls it
IcapParse ==
    /\ pc = "idle"
    /\ \E res \in IcapParseInputs :
         /\ Enter("parseIcapResult", "none", "parseIcapResult", <<>>, <<>>, res)
         /\ pc' = "apply"

\* parseIcapResult returns its three values
IcapParseDone ==
    /\ op = "parseIcapResult"
    /\ pc = "apply"
    /\ results' = <<parseIcapResult(payload)>>
    /\ pc' = "done"
    /\ UNCHANGED <<callVars, open, wire, reads, err, wfailed, sent, rend, ret,
                   dialOKs, dialFails, ticks>>

\* the version pattern is applied to a version line, as TestParseVersion
\* and collectVersion apply it
ParseVersion ==
    /\ pc = "idle"
    /\ \E v \in VersionLines :
         /\ Enter("ParseVersion", "none", "ParseVersion", <<>>, <<>>, v)
         /\ pc' = "apply"

\* the submatches of the line, the date read in UTC as in TestParseVersion,
\* and the error collectVersion returns for a ClamD.Version that is the line
ParseVersionDone ==
    /\ op = "ParseVersion"
    /\ pc = "apply"
    /\ LET m == clamdVersionRegexp(payload)
       IN  /\ results' = <<m>>
           /\ ret' = [err     |-> collectVersion(TRUE, "nil", <<parse(payload)>>, 0).err,
                      errLine |-> <<>>,
                      results |-> <<ParseDBTime(m.db_date, 0)>>]
    /\ pc' = "done"
    /\ UNCHANGED <<callVars, open, wire, reads, err, wfailed, sent, rend,
                   dialOKs, dialFails, ticks>>

Next ==
    \/ command
    \/ commandAwait
    \/ ScanBytes
    \/ ScanBytesTooBig
    \/ spawnConn
    \/ Command
    \/ ChunkLen
    \/ ChunkData
    \/ EOF
    \/ ResponsesLine
    \/ ResponsesEnd
    \/ commandReturn
    \/ commandAwaitReturn
    \/ ScanBytesReturn
    \/ Collect
    \/ CollectVersionDone
    \/ CollectStatsDone
    \/ CollectEicarDone
    \/ IcapCollect
    \/ IcapResolve
    \/ IcapDial
    \/ IcapWrite
    \/ IcapCloseWrite
    \/ IcapReadAll
    \/ ResultParse
    \/ ResultParseDone
    \/ collectStats
    \/ collectStatsDone
    \/ IcapParse
    \/ IcapParseDone
    \/ ParseVersion
    \/ ParseVersionDone
    \/ IcapEicarDone
    \/ IcapHelloDone

Spec == Init /\ [][Next]_vars

\* every peer closes its side in the end: the read loop of Responses then
\* meets io.EOF or an error and breaks, and the ReadAll of testIcap returns
FairSpec == Spec /\ WF_vars(ResponsesEnd) /\ WF_vars(IcapReadAll)

(***************************************************************************)
(* Properties                                                              *)
(***************************************************************************)
\* how many metrics were emitted for descriptor d
Count(d) == Cardinality({ i \in 1..Len(emitted) : emitted[i].desc = d })

Range(f) == { f[i] : i \in DOMAIN f }

\* a Collect of either checker is over: it returned or a panic left it
CollectOver == op \in {"Collect", "IcapCollect"} /\ pc \in {"done", "panic"}

\* C1: when every dial of a Collect failed, the Collect emits up = 0 and NaN
\* for every other gauge
C1_UnreachableAllUnknown ==
    (CollectOver /\ dialOKs = 0 /\ dialFails > 0) =>
        \A i \in 1..Len(emitted) :
            IF emitted[i].desc \in {"promClamDUp", "promIcapUp"}
            THEN emitted[i].value = Num(0)
            ELSE emitted[i].value = NaN

\* C2: a Collect call emits exactly one metric for each descriptor of
\* Describe, 17 for ClamDChecker and 6 for IcapChecker
C2_OneValuePerGauge ==
    /\ Len(ClamDDescribe) = 17
    /\ Len(IcapDescribe) = 6
    /\ CollectOver =>
         LET described == IF op = "Collect" THEN ClamDDescribe ELSE IcapDescribe
         IN  /\ \A d \in Range(described) : Count(d) = 1
             /\ Len(emitted) = Len(described)

\* the version lines of the model that are right in every part
GoodVersionLines == {lineVersionGood}

\* collectVersion has just returned to Collect: the history of the
\* connection is still that of the version query
VersionJustDone == op = "Collect" /\ step = "stats" /\ pc \in {"dial", "ret"}
                   /\ dialOKs + dialFails <= 1 /\ Len(emitted) = 3
                   /\ (pc = "ret" => ~urlOK)

\* C3: up is 1 exactly when the version step succeeded in full, and then the
\* two database gauges are the parsed numbers; else up is 0 and both are NaN
C3_UpIffVersionOK ==
    /\ (op = "Collect" /\ Len(emitted) >= 3) =>
         /\ emitted[1].desc = "promClamDUp"
         /\ emitted[2].desc = "promClamDDBVersion"
         /\ emitted[3].desc = "promClamDDBTime"
         /\ emitted[1].value \in {Num(0), Num(1)}
         /\ emitted[1].value = Num(0) =>
              emitted[2].value = NaN /\ emitted[3].value = NaN
         /\ emitted[1].value = Num(1) =>
              /\ emitted[2].value = Num(25701)
              /\ emitted[3].value = Num(1579524103 - tz[1])
    /\ VersionJustDone =>
         (emitted[1].value = Num(1)
            <=> /\ urlOK
                /\ dialOKs = 1
                /\ ~wfailed
                /\ Len(sent) >= 1
                /\ sent[1] \in GoodVersionLines)

\* C3 witness: the version step failed at the date, after the revision parsed
C3_Witness ==
    /\ VersionJustDone
    /\ dialOKs = 1
    /\ sent /= <<>>
    /\ sent[1] = lineVersionBadDate
    /\ emitted[1].value = Num(0)
    /\ emitted[2].value = NaN

\* the positions at which the operation holds a connection
Connected ==
    pc \in {"cmd", "chunklen", "chunkdata", "eof", "read",
            "icapwrite", "closewrite", "readall"}

\* C4: a connection is open only inside command, ScanBytes and testIcap;
\* when they have returned, on any path, it is closed
C4_ClosedOnReturn == open = (IF Connected THEN 1 ELSE 0)

\* C4 witness: ScanBytes returned after its chunk write failed
C4_Witness ==
    /\ fn = "ScanBytes"
    /\ pc = "ret"
    /\ wfailed
    /\ dialOKs >= 1
    /\ Len(wire) > Len(CommandBytes(cmdINSTREAM))

\* C5: command and ScanBytes return an error when the dial, a write or a
\* read failed
C5_IOFailureIsError ==
    (pc = "done" /\ op \in {"command", "ScanBytes"}
       /\ (dialFails > 0 \/ wfailed \/ rend = "error"))
      => ret.err /= "nil"

\* the raw lines of a list of results
Raws(res) == [i \in 1..Len(res) |-> res[i].raw]

\* the lines the peer sent, as the client keeps them
SentTrimmed == [i \in 1..Len(sent) |-> TrimRight(sent[i])]

\* C6: ScanBytes of at most 1024 bytes dials, never returns the size error
\* and, when the dial and every write succeed, returns the results of the
\* peer's lines and no error; of more than 1024 bytes it returns the size
\* error, dials nothing, writes nothing
C6_ChunkSizeLimit ==
    (pc = "done" /\ op = "ScanBytes") =>
      /\ Len(payload) <= 1024 =>
           /\ dialOKs + dialFails = 1
           /\ ret.err /= "chunk size"
           /\ (dialOKs = 1 /\ ~wfailed) =>
                /\ ret.err = "nil"
                /\ Raws(ret.results) = SentTrimmed
      /\ Len(payload) > 1024 =>
           /\ ret.err = "chunk size"
           /\ ret.results = <<>>
           /\ dialOKs = 0
           /\ dialFails = 0
           /\ wire = <<>>

\* C6 witness: a payload of exactly 1024 bytes was scanned
C6_Witness ==
    /\ pc = "done"
    /\ op = "ScanBytes"
    /\ Len(payload) = 1024
    /\ ret.err = "nil"
    /\ Len(ret.results) >= 1

\* "nINSTREAM\n"
wireINSTREAM ==
    <<110, 73, 78, 83, 84, 82, 69, 65, 77, 10>>

\* 256^n
RECURSIVE Pow256(_)
Pow256(n) == IF n = 0 THEN 1 ELSE 256 * Pow256(n - 1)

\* the k-th byte of the stream of a ScanBytes(b): the command line, the
\* length of b in four bytes, highest first, b, four zero bytes
StreamByte(b, k) ==
    IF k <= 10 THEN wireINSTREAM[k]
    ELSE IF k <= 14 THEN (Len(b) \div Pow256(14 - k)) % 256
    ELSE IF k <= 14 + Len(b) THEN b[k - 14]
    ELSE 0

StreamLen(b) == 10 + 4 + Len(b) + 4

\* C7: what ScanBytes has written on its connection (it is past the dial, the
\* connection variables are its own) is at any time a prefix of the stream, it
\* is the whole stream before the first read, and after a failed write there
\* is no further write and no read
C7_StreamOrder ==
    (fn = "ScanBytes" /\ pc /= "dial") =>
      /\ Len(wire) <= StreamLen(payload)
      /\ \A k \in 1..Len(wire) : wire[k] = StreamByte(payload, k)
      /\ (reads > 0 \/ pc = "read") => Len(wire) = StreamLen(payload)
      /\ wfailed => (reads = 0 /\ pc \in {"ret", "done", "panic"}
                     /\ Len(wire) < StreamLen(payload))

\* C7 witness: the responses to a chunk of 1024 bytes are being read
C7_Witness ==
    /\ fn = "ScanBytes"
    /\ Len(payload) = 1024
    /\ reads > 0
    /\ SubSeq(wire, 11, 14) = <<0, 0, 4, 0>>

\* a command has been written and nothing after it
CommandWritten ==
    \/ fn = "command" /\ pc = "read"
    \/ fn = "ScanBytes" /\ pc = "chunklen"

Printable(b) == b >= 32 /\ b <= 126

\* C8 as claimed: a written command is one non-printable byte, the command
\* and a newline
C8_NonPrintableMarker ==
    CommandWritten =>
      /\ Len(wire) = Len(cmd) + 2
      /\ ~Printable(wire[1])
      /\ SubSeq(wire, 2, Len(cmd) + 1) = cmd
      /\ wire[Len(wire)] = 10

\* C8: a written command is the letter "n", the command and a newline, and
\* nothing else
C8_CommandFraming ==
    CommandWritten =>
      /\ Len(wire) = Len(cmd) + 2
      /\ wire[1] = 110
      /\ SubSeq(wire, 2, Len(cmd) + 1) = cmd
      /\ wire[Len(wire)] = 10

\* C8 witness: VERSION has been written
C8_Witness ==
    /\ CommandWritten
    /\ cmd = cmdVERSION
    /\ wire = <<110, 86, 69, 82, 83, 73, 79, 78, 10>>

AwaitOver == pc = "done" /\ op = "commandAwait"

\* C9 as claimed: when the command itself succeeded, commandAwait succeeds
\* exactly when one line was returned and it is the expected one, fails with
\* errNoResp on no line and with the invalid-response error otherwise
C9_SingleLineOnly ==
    (AwaitOver /\ err = "nil") =>
      IF Len(sent) = 1 /\ SentTrimmed[1] = await THEN ret.err = "nil"
      ELSE IF Len(sent) = 0 THEN ret.err = "errNoResp"
      ELSE ret.err = "invalid response" /\ ret.errLine = SentTrimmed[1]

\* C9: commandAwait returns the error of the command if it failed; else it
\* looks at the first line only: errNoResp when there is none, success when
\* it is the expected line, else the invalid-response error with that line
C9_FirstLineDecides ==
    AwaitOver =>
      IF dialFails > 0 \/ wfailed THEN ret.err \in {"dial", "write"}
      ELSE IF Len(sent) = 0 THEN ret.err = "errNoResp"
      ELSE IF SentTrimmed[1] = await THEN ret.err = "nil"
      ELSE ret.err = "invalid response" /\ ret.errLine = SentTrimmed[1]

\* C9 witness: commandAwait succeeded on a response of several lines
C9_Witness ==
    /\ AwaitOver
    /\ ret.err = "nil"
    /\ Len(sent) >= 2
    /\ sent[2] /= sent[1]

\* C10: when the peer closes after the command without sending a byte,
\* command returns no result and no error
C10_EmptyOnClose ==
    (pc = "done" /\ op = "command" /\ dialOKs = 1 /\ ~wfailed
       /\ sent = <<>> /\ rend = "eof")
      => (ret.err = "nil" /\ ret.results = <<>>)

\* C10 witness: command returned after the peer closed at once
C10_Witness ==
    /\ pc = "done"
    /\ op = "command"
    /\ dialOKs = 1
    /\ ~wfailed
    /\ reads = 1
    /\ sent = <<>>
    /\ rend = "eof"
    /\ wire = CommandBytes(cmd)

\* Result.parse has returned
ParseOver == op = "parse" /\ pc = "done"

NoColon(x) == \A i \in 1..Len(x) : x[i] /= 58

\* x is a description, or a description with "(" hash ":" size ")"
GrammarBody(x) ==
    /\ x /= <<>>
    /\ \/ NoColon(x)
       \/ \E p \in 2..Len(x), c \in 4..Len(x) :
            /\ p + 1 < c
            /\ c + 1 < Len(x)
            /\ x[p] = 40
            /\ x[c] = 58
            /\ x[Len(x)] = 41
            /\ NoColon(SubSeq(x, 1, p - 1))
            /\ NoColon(SubSeq(x, p + 1, c - 1))
            /\ \A i \in (c + 1)..(Len(x) - 1) : x[i] \in 48..57

\* the grammar of a response line that ends in the status token tok:
\* path ": " [body " "] tok
GrammarLine(line, tok) ==
    \E c \in 2..Len(line) :
      /\ NoColon(SubSeq(line, 1, c - 1))
      /\ line[c] = 58
      /\ c + 1 + Len(tok) <= Len(line)
      /\ line[c + 1] = 32
      /\ SubSeq(line, Len(line) - Len(tok) + 1, Len(line)) = tok
      /\ LET mid == SubSeq(line, c + 2, Len(line) - Len(tok))
         IN  \/ mid = <<>>
             \/ /\ mid[Len(mid)] = 32
                /\ GrammarBody(SubSeq(mid, 1, Len(mid) - 1))

StatusTokens == {RES_OK, RES_FOUND, RES_ERROR}

\* C11: Result.parse gives the status OK, FOUND or ERROR exactly to the lines
\* of the grammar that end in that token and PARSE ERROR with a description
\* to every other line, and raw is the line it was given
C11_StatusAndRaw ==
    /\ ParseOver =>
         LET r == results[1]
         IN  /\ r.raw = payload
             /\ \A tok \in StatusTokens :
                  (r.Status = tok) <=> GrammarLine(payload, tok)
             /\ (\A tok \in StatusTokens : ~GrammarLine(payload, tok)) =>
                  (r.Status = RES_PARSE_ERROR /\ r.Description /= <<>>)
    /\ (fn \in {"command", "ScanBytes"} /\ Len(results) = Len(sent)) =>
         \A i \in 1..Len(results) :
           /\ results[i].raw = TrimRight(sent[i])
           /\ results[i].Status \in StatusTokens \cup {RES_PARSE_ERROR}

\* C11 witness: a line with a hash part and no status token was parsed
C11_Witness ==
    /\ ParseOver
    /\ payload = <<112, 58, 32, 69, 40, 104, 58, 49, 41, 32, 111, 107>>
    /\ results[1].Status = RES_PARSE_ERROR
    /\ results[1].raw = payload

\* the fields of the lines a daemon generates, sizes 1 and 12
GenFields ==
    [path : {<<112>>, <<47, 97, 32, 98>>}, desc : {<<69>>, <<69, 32, 101>>},
     hash : {<<104>>}, size : {1, 12}, status : StatusTokens]

\* <path>: <desc>(<hash>:<size>) <status>
GenLine(f) ==
    f.path \o <<58, 32>> \o f.desc \o <<40>> \o f.hash \o <<58>>
      \o Itoa(f.size) \o <<41, 32>> \o f.status

\* <path>: <desc> <status>
GenLineNoHash(f) == f.path \o <<58, 32>> \o f.desc \o <<32>> \o f.status

\* C12: parsing a generated line gives back the five fields, and an empty
\* Hash and Size 0 when the line has no hash part
C12_RoundTrip ==
    ParseOver =>
      \A f \in GenFields :
        /\ payload = GenLine(f) =>
             /\ results[1].Path = f.path
             /\ results[1].Description = f.desc
             /\ results[1].Hash = f.hash
             /\ results[1].Size = f.size
             /\ results[1].Status = f.status
        /\ payload = GenLineNoHash(f) =>
             /\ results[1].Path = f.path
             /\ results[1].Description = f.desc
             /\ results[1].Hash = <<>>
             /\ results[1].Size = 0
             /\ results[1].Status = f.status

\* C13: for every list of lines the daemon sent in answer to STATS, every
\* Result has a status and the fold of ClamD.Stats returns a record
C13_ParsersReturn ==
    cmd = cmdSTATS =>
      /\ \A i \in 1..Len(results) :
           results[i].Status \in StatusTokens \cup {RES_PARSE_ERROR}
      /\ ~Stats(results).panic

\* the stats gauges have been emitted, the first of them at position k
StatsEmitted(k) ==
    \/ k = 1 /\ op = "collectStats" /\ pc = "done"
    \/ k = 4 /\ op = "Collect" /\ Len(emitted) >= 15

\* the metrics at positions a..b are all NaN or all numbers
Uniform(a, b) ==
    \A i, j \in a..b : emitted[i].value.nan = emitted[j].value.nan

\* C14: after collectStats each section (queue length; threads live, idle,
\* max; the eight memory figures) is all numbers or all NaN
C14_SectionsAllOrNothing ==
    \A k \in {1, 4} :
      StatsEmitted(k) =>
        /\ Uniform(k + 1, k + 3)
        /\ Uniform(k + 4, k + 11)

\* testIcap has written its whole request
RequestWritten == fn = "testIcap" /\ pc \in {"closewrite", "readall"}

\* the embedded header block for a body of n bytes
HeaderBlockFor(n) == sContentLength \o Itoa(n) \o sCRLF \o sCRLF

\* the end of a request for the payload b, from the Encapsulated header on:
\* the offset of the body is the length of the header block, the
\* Content-Length and the chunk length are the length of b
RequestTailFor(b) ==
    sEncapsulated \o Itoa(Len(HeaderBlockFor(Len(b)))) \o sCRLF \o sCRLF
      \o HeaderBlockFor(Len(b))
      \o Hex(Len(b)) \o sCRLF \o b \o sCRLF \o sIeof

\* C15: in every request testIcap writes, the Content-Length is the length
\* of the payload and so is the chunk length, and res-body is the length of
\* the embedded header block
C15_LengthsAgree ==
    RequestWritten => HasSuffix(wire, RequestTailFor(payload))

\* C16: testIcap returns a measured elapsed time exactly when it returns no
\* error, and NaN when it returns after a failed resolve, dial, write,
\* half-close or read
C16_ElapsedOnlyOnCompletion ==
    /\ (fn = "testIcap" /\ pc = "ret") =>
         (testIcap(err, Response, timing, ticks).elapsed = NaN <=> err /= "nil")
    /\ (op = "IcapCollect" /\ pc = "done") =>
         (emitted[6].value = NaN <=> err /= "nil")

\* parseIcapResult has returned
IcapParseOver == op = "parseIcapResult" /\ pc = "done"

\* lit occurs in s at position i
Occurs(s, lit, i) ==
    /\ i >= 1
    /\ i + Len(lit) - 1 <= Len(s)
    /\ SubSeq(s, i, i + Len(lit) - 1) = lit

\* the positions of s where "ICAP/1.0 " and a digit occur
CodePlaces(s) ==
    { i \in 1..Len(s) : Occurs(s, sIcapCode, i)
                          /\ i + Len(sIcapCode) <= Len(s)
                          /\ s[i + Len(sIcapCode)] \in 48..57 }

\* the number written at position d of s
RECURSIVE NumberAt(_, _, _)
NumberAt(s, d, acc) ==
    IF d > Len(s) \/ s[d] \notin 48..57 THEN acc
    ELSE NumberAt(s, d + 1, 10 * acc + (s[d] - 48))

\* the number of the first "ICAP/1.0 <digits>" of s, -1 if there is none
ExpectedCode(s) ==
    IF CodePlaces(s) = {} THEN 0 - 1
    ELSE LET i == CHOOSE k \in CodePlaces(s) : \A j \in CodePlaces(s) : k <= j
         IN  NumberAt(s, i + Len(sIcapCode), 0)

\* s has "X-Infection-Found: " and, later on the same line, "Threat=" and
\* after it a ";"
HasThreatHeader(s) ==
    \E i \in 1..Len(s) :
      /\ Occurs(s, sInfection, i)
      /\ \E t \in (i + Len(sInfection))..Len(s) :
           /\ Occurs(s, sThreat, t)
           /\ \E k \in (t + Len(sThreat))..Len(s) :
                /\ s[k] = 59
                /\ \A j \in i..k : s[j] /= 10

respThreatNoName ==
    <<88, 45, 73, 110, 102, 101, 99, 116, 105, 111, 110, 45, 70, 111, 117,
      110, 100, 58, 32, 84, 104, 114, 101, 97, 116, 61, 59, 13, 10>>

VersionOver == op = "ParseVersion" /\ pc = "done"

NoSlash(x) == \A i \in 1..Len(x) : x[i] /= 47

\* v is "ClamAV " followed by a text with at least two "/"
VersionForm(v) ==
    /\ Occurs(v, strClamAV, 1)
    /\ Cardinality({ i \in 1..Len(v) : v[i] = 47 }) >= 2

\* "0.102.1", "25701", "Mon Jan 20 12:41:43 2020", "a/b"
testEngine == <<48, 46, 49, 48, 50, 46, 49>>
testRevision == <<50, 53, 55, 48, 49>>
testDate ==
    <<77, 111, 110, 32, 74, 97, 110, 32, 50, 48, 32, 49, 50, 58, 52, 49,
      58, 52, 51, 32, 50, 48, 50, 48>>
dateWithSlash == <<97, 47, 98>>

\* C18: a line "ClamAV <engine>/<revision>/<date>" gives three fields, the
\* engine and the revision without "/" and the date the whole rest; the
\* test line gives 0.102.1, 25701 and a date of epoch 1579524103 in UTC;
\* any other line gives no field and the error of an invalid version
C18_VersionFields ==
    VersionOver =>
      LET m == results[1]
      IN  /\ VersionForm(payload) =>
               /\ m.n = 4
               /\ NoSlash(m.clamav_version)
               /\ NoSlash(m.db_version)
               /\ payload = strClamAV \o m.clamav_version \o <<47>>
                              \o m.db_version \o <<47>> \o m.db_date
               /\ ret.err /= "invalid version"
          /\ ~VersionForm(payload) =>
               /\ m.n = 0
               /\ ret.err = "invalid version"
          /\ payload = lineVersionGood =>
               /\ m.clamav_version = testEngine
               /\ m.db_version = testRevision
               /\ m.db_date = testDate
               /\ ret.results[1] = [ok |-> TRUE, unix |-> 1579524103]
               /\ ret.err = "nil"

\* C18 witness: a line whose date holds a "/" was matched
C18_Witness ==
    /\ VersionOver
    /\ payload = strClamAV \o testEngine \o <<47>> \o testRevision \o <<47>>
                   \o dateWithSlash
    /\ results[1].n = 4
    /\ results[1].db_version = testRevision
    /\ results[1].db_date = dateWithSlash


\* ---------------------------------------------------------------------------
\* C19: two successive Collect calls of one checker, every dial refused both
\* times, emit the same reading: the same value for every gauge and label.
\* prev holds the reading of the first call while the second has not
\* connected either.
UnreachableTwice ==
    /\ CollectOver
    /\ pc = "done"
    /\ dialOKs = 0
    /\ dialFails > 0
    /\ prev /= <<>>

C19_SameReading == UnreachableTwice => emitted = prev

\* the same, for the gauges that are not a measured time: these do repeat
TimeGauges ==
    {"promClamDEicarDetectionTime", "promIcapEicarDetectionTime",
     "promIcapHelloOKTime"}

Untimed(ms) == SelectSeq(ms, LAMBDA m : m.desc \notin TimeGauges)

C19_SameUntimedReading ==
    UnreachableTwice => Untimed(emitted) = Untimed(prev)


\* ---------------------------------------------------------------------------
\* a Collect call of either checker is running
CollectRuns ==
    op \in {"Collect", "IcapCollect"} /\ pc \notin {"done", "panic"}

\* a Collect call returned and emitted one metric per descriptor
CollectReturned ==
    /\ op \in {"Collect", "IcapCollect"}
    /\ pc = "done"
    /\ Len(emitted) = Len(IF op = "Collect" THEN ClamDDescribe ELSE IcapDescribe)

\* the places of a call where the next step is the program's own, not the
\* peer's and not a new call
OwnPcs ==
    {"dial", "cmd", "chunklen", "chunkdata", "eof", "toobig", "ret", "apply",
     "resolve", "icapdial", "icapwrite", "closewrite"}

OwnTurn == pc \in OwnPcs

\* the goroutine of a call is scheduled: the call does not stay for ever at a
\* place where the next step is its own
OwnFair == []<>(~OwnTurn) \/ []<><<OwnTurn>>_vars

\* C20: when every peer closes its side in the end (FairSpec) and the call
\* is scheduled, a running Collect call leads to its return with all its
\* gauges emitted
C20_CollectReturns == OwnFair => (CollectRuns ~> CollectReturned)

\* under the same conditions a running Collect call does come to an end, by
\* a return or by a panic; without the peers' closing (Spec) it does not
C20_CollectEnds == OwnFair => (CollectRuns ~> CollectOver)

\* IcapChecker.Collect alone does return with its six gauges
C20_IcapCollectReturns ==
    OwnFair => ((CollectRuns /\ op = "IcapCollect") ~> CollectReturned)

\* a call that reads from its peer is held there until the peer acts: the
\* only steps out of, or in, a read are a line or the end sent by the peer
C20_ReadWaitsForPeer ==
    [][/\ pc = "read" => ResponsesLine \/ ResponsesEnd
       /\ pc = "readall" => IcapReadAll]_vars


\* ---------------------------------------------------------------------------
\* the place of a step of ClamDChecker.Collect in its order
StepNo == CASE step = "version" -> 1
            [] step = "stats"   -> 2
            [] step = "eicar"   -> 3
            [] OTHER            -> 0

\* the dial attempts of the call so far
Dials == dialOKs + dialFails

\* in a Collect of a checker whose URL parses, the dials made so far are one
\* for each step before the present one, and one for the present step as
\* soon as it has left its dial: in the order version, stats, eicar, each
\* once, none again, and at most one connection is open
C21_StepsInOrder ==
    (op = "Collect" /\ urlOK) =>
        /\ StepNo \in 1..3
        /\ Dials = (IF pc = "dial" THEN StepNo - 1 ELSE StepNo)
        /\ open = (IF pc \in {"dial", "ret", "done", "panic"} THEN 0 ELSE 1)

\* a step of a Collect dials with no connection left open by the step before
C21_Witness ==
    /\ op = "Collect"
    /\ step = "eicar"
    /\ pc = "cmd"
    /\ dialOKs = 2
    /\ dialFails = 1
    /\ open = 1

\* C21: a Collect makes at most three dials, in the order of its steps, with
\* at most one connection open, and when it is over every step was
\* attempted once, whether or not an earlier step failed
C21_EveryStepOnce ==
    /\ C21_StepsInOrder
    /\ op = "Collect" => Dials <= 3 /\ open <= 1
    /\ (op = "Collect" /\ CollectOver) => step = "eicar"
    /\ (op = "Collect" /\ CollectOver /\ urlOK) => Dials = 3

\* the same for the Collect calls that return
C21_EveryStepOnceOnReturn ==
    /\ C21_StepsInOrder
    /\ op = "Collect" => Dials <= 3 /\ open <= 1
    /\ (op = "Collect" /\ pc = "done") => step = "eicar"
    /\ (op = "Collect" /\ pc = "done" /\ urlOK) => Dials = 3


\* ---------------------------------------------------------------------------
\* an exchange of IcapChecker.Collect has returned to Collect
ExchangeOver == op = "IcapCollect" /\ pc = "ret"

\* the exchange went all the way: the address resolved, the connection was
\* made, the request written whole, the write side closed and the answer
\* read to the peer's close
ExchangeCompleted == timing /\ ~wfailed /\ rend = "eof"

\* the value of the i-th metric emitted
Emitted(i) == emitted[i].value

\* testIcap returns an error exactly when the exchange did not complete
C22_ErrorIffNotCompleted ==
    ExchangeOver => (err = "nil" <=> ExchangeCompleted)

\* the step of Collect that follows the EICAR exchange: up is 0 exactly when
\* the exchange returned an error, and the hello exchange starts either way
C22_UpStep ==
    (ExchangeOver /\ step = "eicar") =>
        /\ Len(emitted') = 4
        /\ emitted'[1].desc = "promIcapUp"
        /\ emitted'[1].value = (IF err = "nil" THEN Num(1) ELSE Num(0))
        /\ step' = "hello"
        /\ pc' = "resolve"

\* the step of Collect that follows the hello exchange: hello_ok is 1
\* exactly when the exchange returned no error and its answer has no
\* infection header with "Threat=...;", and up stays what it was
C22_HelloStep ==
    (ExchangeOver /\ step = "hello") =>
        /\ Len(emitted') = 6
        /\ emitted'[5].desc = "promIcapHelloOK"
        /\ emitted'[5].value =
             (IF err = "nil" /\ ~HasThreatHeader(Response)
              THEN Num(1) ELSE Num(0))
        /\ emitted'[1] = emitted[1]
        /\ pc' = "done"

\* C22: in IcapChecker.Collect up is 0 exactly when the EICAR exchange
\* returned an error, whatever its answer and whatever the hello exchange
\* does; the hello exchange is attempted after a failed EICAR exchange too;
\* hello_ok is 1 exactly when the hello exchange returned no error and its
\* answer carried no threat header
C22_UpAndHelloOK ==
    /\ []C22_ErrorIffNotCompleted
    /\ [][C22_UpStep /\ C22_HelloStep]_vars

\* a Collect returned with up = 0 and hello_ok = 1: the EICAR exchange
\* failed, the hello exchange was made all the same and went well
C22_Witness ==
    /\ op = "IcapCollect"
    /\ pc = "done"
    /\ Emitted(1) = Num(0)
    /\ Emitted(5) = Num(1)

\* a Collect returned with up = 1 although the answer to EICAR was a 500
\* with nothing detected and the hello exchange failed
C22_UpWhateverTheAnswer ==
    /\ op = "IcapCollect"
    /\ pc = "done"
    /\ Emitted(1) = Num(1)
    /\ Emitted(2) = Num(500)
    /\ Emitted(3) = Num(0)
    /\ Emitted(5) = Num(0)
    /\ err /= "nil"

====
